---- MODULE Spec2Model ----
(***************************************************************************)
(* State-machine model of rulepack: the dependency resolver (install), the *)
(* composer (build), the target renderers and the profile store.           *)
(*                                                                         *)
(* Hashes (SHA-256) are modelled as collision-free: the hash of a string   *)
(* is the canonical tuple of the fields that the code writes into the      *)
(* hashed string, in the order the code writes them.  The 8 and 12 hex     *)
(* character prefixes used by buildID are modelled as collision-free too.  *)
(***************************************************************************)
EXTENDS Naturals, Integers, Sequences, FiniteSets, TLC

VARIABLES
    cfg,        \* rulepack.json: cfg.Overrides and cfg.Targets
    deps,       \* rulepack.json: cfg.Dependencies
    lock,       \* rulepack.lock.json: [exists, resolved]
    localPacks, \* local pack directories: path -> [exists, content]
    gitHead,    \* HEAD commit of the remote repository
    store,      \* ~/.rulepack/profiles: id -> profile directory
    files,      \* target output paths: path -> file
    clock,      \* wall clock (time.Now)
    composed,   \* module sequence the last successful build handed to the renderers
    last        \* outcome of the last command: [cmd, err, ...]

vars == <<cfg, deps, lock, localPacks, gitHead, store, files, clock, composed, last>>

-----------------------------------------------------------------------------
(* Bounds *)

MaxDeps == 2
MaxProfiles == 2
MaxClock == 1
MaxContent == 2
MaxCommit == 3

-----------------------------------------------------------------------------
(* Universe of identifiers *)

\* Module ids, listed in ascending Go string order (' ' < '.' < '_').
IdOrder == <<"a", "a b", "a.b", "a_b", "b", "c">>
ModuleIds == {IdOrder[i] : i \in 1..Len(IdOrder)}
IdRank(id) == CHOOSE i \in 1..Len(IdOrder) : IdOrder[i] = id

Contents == 1..MaxContent
Aliases == {"p", "q"}

Min2(a, b) == IF a < b THEN a ELSE b

-----------------------------------------------------------------------------
(* internal/build: Sort.  sort.Slice on fewer than 12 elements is an        *)
(* insertion sort; elements are records with fields priority and id.        *)

ModuleLess(x, y) ==
    IF x.priority = y.priority THEN IdRank(x.id) < IdRank(y.id)
    ELSE x.priority < y.priority

RECURSIVE InsertSorted(_, _)
InsertSorted(sorted, m) ==
    IF sorted = <<>> THEN <<m>>
    ELSE IF ModuleLess(m, sorted[Len(sorted)])
         THEN Append(InsertSorted(SubSeq(sorted, 1, Len(sorted) - 1), m), sorted[Len(sorted)])
         ELSE Append(sorted, m)

RECURSIVE SortTail(_, _)
SortTail(acc, rest) ==
    IF rest = <<>> THEN acc
    ELSE SortTail(InsertSorted(acc, Head(rest)), Tail(rest))

SortModules(modules) == SortTail(<<>>, modules)

\* Sequence helpers
SeqToSet(s) == {s[i] : i \in 1..Len(s)}

RECURSIVE SeqMap(_, _)
SeqMap(Op(_), s) == IF s = <<>> THEN <<>> ELSE <<Op(Head(s))>> \o SeqMap(Op, Tail(s))

RECURSIVE SeqFilter(_, _)
SeqFilter(Keep(_), s) ==
    IF s = <<>> THEN <<>>
    ELSE (IF Keep(Head(s)) THEN <<Head(s)>> ELSE <<>>) \o SeqFilter(Keep, Tail(s))

RECURSIVE SelectFrom(_, _, _)
SelectFrom(s, KeepAt(_), i) ==
    IF i > Len(s) THEN <<>>
    ELSE (IF KeepAt(i) THEN <<s[i]>> ELSE <<>>) \o SelectFrom(s, KeepAt, i + 1)

SelectIndices(s, KeepAt(_)) == SelectFrom(s, KeepAt, 1)

\* Functions with a dynamic domain (directories, file trees)
EmptyMap == [x \in {} |-> 0]
MapPut(f, k, v) == [x \in (DOMAIN f) \cup {k} |-> IF x = k THEN v ELSE f[x]]
MapDel(f, k) == [x \in (DOMAIN f) \ {k} |-> f[x]]

-----------------------------------------------------------------------------
(* internal/profile *)

ProfileSource == "profile"
ProfileCommit == "profile"

\* sanitizeID of internal/profile: '/', '\' and ' ' and every character
\* outside [a-zA-Z0-9_.-] become '_'; '.' is kept.
ProfileSanitizeID(id) == IF id = "a b" THEN "a_b" ELSE id

\* Name of the module file written by SaveSnapshot: modules/<NNN>-<sanitized>.md
SnapshotFileName(m) == <<m.priority, ProfileSanitizeID(m.id)>>

\* ComputeContentHash: items sorted by (priority, id), then hashed with the
\* export name in front.
ContentItem(m) ==
    [id |-> m.id, priority |-> m.priority, packName |-> m.packName,
     packVersion |-> m.packVersion, commit |-> m.commit,
     content |-> m.content, apply |-> m.apply]

ComputeContentHash_mut(modules, export) ==
    <<"export", export, SeqMap(ContentItem, modules)>>

ComputeContentHash(modules, export) ==
    <<"export", export, SortModules(SeqMap(ContentItem, modules))>>

\* buildID: sha256 of the sorted ";"-joined source keys, first 12 hex chars,
\* then "__default__", then the first 8 characters of the content hash.
SourceKey(s) == <<s.sourceType, s.sourceRef, s.sourceExport>>

SourceKeyRank(k) ==
    (IF k[1] = "git" THEN 0 ELSE IF k[1] = "local" THEN 10 ELSE 20)
    + (IF k[1] = "local" THEN (IF k[2] = <<"pa">> THEN 1 ELSE 2) ELSE 0)

KeyAsItem(k) == [priority |-> SourceKeyRank(k), id |-> "a", key |-> k]
ItemKey(it) == it.key

SortStrings(keys) == SeqMap(ItemKey, SortModules(SeqMap(KeyAsItem, keys)))

buildID(sources, contentHash) ==
    [src |-> SortStrings(SeqMap(SourceKey, sources)), h |-> contentHash]

\* A profile directory: profile.json (meta, <<>> when the file is absent),
\* rulepack.json (rp: the snapshot module entries) and modules/*.md (mfiles).
NewDir == [meta |-> <<>>, rp |-> <<>>, mfiles |-> EmptyMap]

\* readProfile: fails when profile.json is missing, has no id or no sources.
readProfileOK(dir) ==
    /\ dir.meta # <<>>
    /\ dir.meta[1].sources # <<>>

\* ensureAliasUnique(root, alias, currentID): TRUE when no other readable
\* profile carries the alias.
ensureAliasUnique_mut(st, alias, currentID) == TRUE

ensureAliasUnique(st, alias, currentID) ==
    \/ alias = ""
    \/ \A d \in DOMAIN st :
          ~ ( /\ readProfileOK(st[d])
              /\ st[d].meta[1].id # currentID
              /\ st[d].meta[1].alias = alias )

SnapshotEntry(m) ==
    [id |-> m.id, path |-> SnapshotFileName(m), priority |-> m.priority, apply |-> m.apply]

RECURSIVE WriteModuleFiles(_, _)
WriteModuleFiles(mfiles, modules) ==
    IF modules = <<>> THEN mfiles
    ELSE WriteModuleFiles(MapPut(mfiles, SnapshotFileName(Head(modules)), Head(modules).content),
                          Tail(modules))

\* SaveSnapshot writes the module files and rulepack.json of the profile
\* directory first.
SnapshotDir(dir0, modules) ==
    [dir0 EXCEPT !.mfiles = WriteModuleFiles(dir0.mfiles, modules),
                 !.rp = SortModules(SeqMap(SnapshotEntry, modules))]

\* The metadata SaveSnapshot is going to write: createdAt, and the alias when
\* none is given, are kept from a readable profile.json already there.
SnapshotMeta_mut(dir0, id, alias, sources, contentHash, count, now) ==
    [id |-> id, alias |-> alias, sources |-> sources, createdAt |-> now,
     contentHash |-> contentHash, moduleCount |-> count]

SnapshotMeta(dir0, id, alias, sources, contentHash, count, now) ==
    [id |-> id,
     alias |-> IF readProfileOK(dir0) /\ alias = "" THEN dir0.meta[1].alias ELSE alias,
     sources |-> sources,
     createdAt |-> IF readProfileOK(dir0) THEN dir0.meta[1].createdAt ELSE now,
     contentHash |-> contentHash, moduleCount |-> count]

\* The end of SaveSnapshot: the alias check, then profile.json.  st1 is the
\* store with the module files and rulepack.json written.
SnapshotCommit_mut(st1, id, meta) ==
    IF ~ ensureAliasUnique(st1, meta.alias, meta.id)
    THEN [store |-> st1, err |-> "alias already exists", meta |-> <<>>]
    ELSE [store |-> [st1 EXCEPT ![id].meta =
                        <<[meta EXCEPT !.id = buildID(meta.sources, meta.contentHash)]>>],
          err |-> "", meta |-> <<meta>>]

SnapshotCommit(st1, id, meta) ==
    IF ~ ensureAliasUnique(st1, meta.alias, meta.id)
    THEN [store |-> st1, err |-> "alias already exists", meta |-> <<>>]
    ELSE [store |-> [st1 EXCEPT ![id].meta = <<meta>>], err |-> "", meta |-> <<meta>>]

SnapshotInto(st, id, dir0, alias, sources, contentHash, modules, now) ==
    SnapshotCommit(MapPut(st, id, SnapshotDir(dir0, modules)), id,
                   SnapshotMeta(dir0, id, alias, sources, contentHash, Len(modules), now))

SnapshotAt(st, id, alias, sources, contentHash, modules, now) ==
    SnapshotInto(st, id, IF id \in DOMAIN st THEN st[id] ELSE NewDir,
                 alias, sources, contentHash, modules, now)

\* SaveSnapshot(input), at time now, on store st.  idOpt is <<>> for an
\* empty input.ID and <<id>> otherwise.  Returns the store after the call,
\* the error ("" for success) and the metadata returned.
SaveSnapshot(st, idOpt, alias, sources, contentHash, modules, now) ==
    IF sources = <<>> THEN [store |-> st, err |-> "missing profile sources", meta |-> <<>>]
    ELSE SnapshotAt(st, IF idOpt = <<>> THEN buildID(sources, contentHash) ELSE idOpt[1],
                    alias, sources, contentHash, modules, now)

-----------------------------------------------------------------------------
(* internal/pack: packs, export selection and expansion *)

LocalPaths == {"pa", "pb"}
GitURI == "ga"

\* ApplyConfig: default and targets["cursor"], each <<>> when absent and
\* <<mode>> when present.
NoApply == [default |-> <<>>, cursor |-> <<>>]

\* rulepack.json of each local pack.  include patterns and folder prefixes
\* are represented by the set of module ids they match.
PackManifest(name) ==
    IF name = "pa"
    THEN [name |-> <<"pack", "pa">>, version |-> "1.0.0",
          modules |-> << [id |-> "b", path |-> "b.md", priority |-> 2,
                          apply |-> [default |-> <<>>, cursor |-> <<"agent">>]],
                         [id |-> "a", path |-> "a.md", priority |-> 1, apply |-> NoApply] >>,
          exports |-> [e \in {"sub"} |-> {"a"}],
          folders |-> EmptyMap]
    ELSE [name |-> <<"pack", "pb">>, version |-> "1.0.0",
          modules |-> << [id |-> "c", path |-> "c.md", priority |-> 1,
                          apply |-> [default |-> <<"never">>, cursor |-> <<>>]] >>,
          exports |-> EmptyMap,
          folders |-> EmptyMap]

\* rulepack.json of the git pack at a commit: the second commit introduces an
\* apply mode the cursor renderer does not know, the third switches the
\* module to never.
GitManifest(commit) ==
    [name |-> <<"pack", "ga">>, version |-> "2.0.0",
     modules |-> << [id |-> "a", path |-> "a.md", priority |-> 3,
                     apply |-> [default |-> <<>>,
                                cursor |-> IF commit = 2 THEN <<"bogus">>
                                           ELSE IF commit = 3 THEN <<"never">> ELSE <<>>]] >>,
     exports |-> [e \in {"default"} |-> {"a"}],
     folders |-> EmptyMap]

PackPaths(name) == {PackManifest(name).modules[i].path : i \in 1..Len(PackManifest(name).modules)}

\* Files of the git pack at a commit: every commit rewrites a.md.
GitFiles(commit) == [p \in {"a.md"} |-> commit]

\* exportSelector: the ids selected by export `name`; ok = FALSE is the
\* "missing export" error.
exportSelector(rp, name) ==
    IF name = ""
    THEN IF "default" \in DOMAIN rp.exports
         THEN [ok |-> TRUE, ids |-> rp.exports["default"]]
         ELSE [ok |-> TRUE, ids |-> ModuleIds]
    ELSE IF name \in DOMAIN rp.exports
         THEN [ok |-> TRUE, ids |-> rp.exports[name]]
         ELSE IF name \in DOMAIN rp.folders
              THEN [ok |-> TRUE, ids |-> rp.folders[name]]
              ELSE [ok |-> FALSE, ids |-> {}]

selectModules_mut(modules, ids) ==
    LET Keep(m) == m.id \in ids
    IN SeqFilter(Keep, modules)

\* selectModules: filter in manifest order, then sort by (priority, id).
selectModules(modules, ids) ==
    LET Keep(m) == m.id \in ids
    IN SortModules(SeqFilter(Keep, modules))

\* hashState.sum
HashedModule(m, content) ==
    [id |-> m.id, path |-> m.path, priority |-> m.priority, content |-> content, apply |-> m.apply]

hashSum(packName, packVersion, export, hashed) ==
    <<"pack", packName, packVersion, export, hashed>>

\* expandDependencyWithHash over a reader (rp: the parsed rulepack.json,
\* fs: path -> content).  err = "" on success.
expandDependencyWithHash(rp, fs, export, commit) ==
    LET sel == exportSelector(rp, export)
        selected == selectModules(rp.modules, sel.ids)
        Readable(m) == m.path \in DOMAIN fs
        ToModule(m) == [packName |-> rp.name, packVersion |-> rp.version, commit |-> commit,
                        id |-> m.id, priority |-> m.priority, content |-> fs[m.path],
                        apply |-> m.apply]
        ToHashed(m) == HashedModule(m, fs[m.path])
    IN IF ~ sel.ok THEN [err |-> "missing export", mods |-> <<>>, hash |-> <<>>]
       ELSE IF \E i \in 1..Len(selected) : ~ Readable(selected[i])
            THEN [err |-> "read module", mods |-> <<>>, hash |-> <<>>]
            ELSE [err |-> "", mods |-> SeqMap(ToModule, selected),
                  hash |-> hashSum(rp.name, rp.version, export, SeqMap(ToHashed, selected))]

\* ExpandGitDependency: read the pack at lock.Commit.
ExpandGitDependency(export, commit) ==
    expandDependencyWithHash(GitManifest(commit), GitFiles(commit), export, <<"git", commit>>)

\* ExpandLocalDependency: read the pack under the local root.
ExpandLocalDependency(lp, path, export) ==
    expandDependencyWithHash(PackManifest(path), lp[path].content, export, <<"local">>)

\* ExpandProfileDependency: read the snapshot pack of a profile directory.
SnapshotManifest(id, dir) ==
    [name |-> <<"saved-profile", id>>, version |-> "1.0.0", modules |-> dir.rp,
     exports |-> [e \in {"default"} |-> ModuleIds], folders |-> EmptyMap]

ExpandProfileDependency(id, dir, export) ==
    expandDependencyWithHash(SnapshotManifest(id, dir), dir.mfiles, export, <<ProfileCommit>>)

-----------------------------------------------------------------------------
(* internal/profile: lookup and removal *)

\* List: the metadata of every readable profile directory.
List(st) == {st[d].meta[1] : d \in {x \in DOMAIN st : readProfileOK(st[x])}}

\* readProfile: the error of reading profile.json in a profile directory
\* ("" when it is read): the file is missing, or it has no sources[].
UnsupportedFormat == "unsupported profile format: missing sources; re-save profile with current CLI"

readProfile(dir) ==
    IF dir.meta = <<>> THEN "open profile.json: no such file"
    ELSE IF dir.meta[1].sources = <<>> THEN UnsupportedFormat
    ELSE ""

\* readProfileAlias: the alias in profile.json, whatever else it holds.
readProfileAlias(dir) == IF dir.meta = <<>> THEN <<>> ELSE <<dir.meta[1].alias>>

NotFound == [err |-> "profile not found locally", meta |-> <<>>, dir |-> <<>>]

ResolveIDOrAlias_mut(st, ref) ==
    IF ref.id # <<>> /\ ref.id[1] \in DOMAIN st
    THEN IF readProfileOK(st[ref.id[1]])
         THEN [err |-> "", meta |-> st[ref.id[1]].meta, dir |-> <<ref.id[1]>>]
         ELSE [err |-> readProfile(st[ref.id[1]]), meta |-> <<>>, dir |-> <<>>]
    ELSE LET matches == {m \in List(st) : ref.id = <<>> /\ m.alias = ref.alias}
         IN IF matches = {} THEN NotFound
            ELSE IF Cardinality(matches) > 1
                 THEN [err |-> "alias resolves to multiple profiles", meta |-> <<>>, dir |-> <<>>]
                 ELSE LET m == CHOOSE x \in matches : TRUE
                      IN [err |-> "", meta |-> <<m>>, dir |-> <<m.id>>]

\* ResolveIDOrAlias(ref): ref is [id |-> <<id>>, alias |-> ""] for a
\* directory name and [id |-> <<>>, alias |-> a] for an alias.  A directory
\* of that name is read first; then the alias is looked up among the
\* readable profiles, and, when none carries it, among the profiles in the
\* unsupported format.
ResolveIDOrAlias(st, ref) ==
    IF ref.id # <<>> /\ ref.id[1] \in DOMAIN st
    THEN IF readProfileOK(st[ref.id[1]])
         THEN [err |-> "", meta |-> st[ref.id[1]].meta, dir |-> <<ref.id[1]>>]
         ELSE [err |-> readProfile(st[ref.id[1]]), meta |-> <<>>, dir |-> <<>>]
    ELSE LET matches == {m \in List(st) : ref.id = <<>> /\ m.alias = ref.alias}
             legacy == {d \in DOMAIN st : /\ ref.id = <<>>
                                          /\ readProfile(st[d]) = UnsupportedFormat
                                          /\ readProfileAlias(st[d]) = <<ref.alias>>}
         IN IF matches = {}
            THEN IF legacy # {}
                 THEN [err |-> UnsupportedFormat, meta |-> <<>>, dir |-> <<>>]
                 ELSE NotFound
            ELSE IF Cardinality(matches) > 1
                 THEN [err |-> "alias resolves to multiple profiles", meta |-> <<>>, dir |-> <<>>]
                 ELSE LET m == CHOOSE x \in matches : TRUE
                      IN [err |-> "", meta |-> <<m>>, dir |-> <<m.id>>]

ByID(id) == [id |-> <<id>>, alias |-> ""]
ByAlias(a) == [id |-> <<>>, alias |-> a]

-----------------------------------------------------------------------------
(* cmd/rulepack: manifest, lockfile and install *)

GitDep(export) ==
    [source |-> "git", uri |-> GitURI, path |-> "", profile |-> <<>>, export |-> export,
     ref |-> ""]
\* deps add <git-url> --ref <ref>
GitDepRef(export, ref) == [GitDep(export) EXCEPT !.ref = ref]
LocalDep(path, export) ==
    [source |-> "local", uri |-> "", path |-> path, profile |-> <<>>, export |-> export,
     ref |-> ""]
ProfileDep(id) ==
    [source |-> ProfileSource, uri |-> "", path |-> "", profile |-> <<id>>, export |-> "default",
     ref |-> ""]

dependencySource(dep) == IF dep.source = "" THEN "git" ELSE dep.source
lockSource(locked) == IF locked.source = "" THEN "git" ELSE locked.source

dependencyReference(dep) ==
    IF dependencySource(dep) = "git" THEN <<dep.uri>>
    ELSE IF dependencySource(dep) = "local" THEN <<dep.path>>
    ELSE dep.profile

\* resolveLocalPath: the directory must exist and hold a rulepack.json; the
\* manifest stores paths already relative and slash-separated.
resolveLocalPathOK(lp, path) == path \in DOMAIN lp /\ lp[path].exists

profileDependencyForRead(dep) == IF dep.export = "" THEN [dep EXCEPT !.export = "default"] ELSE dep

\* git.Resolve(repoDir, ref, ""): a ref is resolved by rev-parse, no ref is
\* HEAD.  The repository carries the tag v1 on its first commit.
GitTag == "v1"
Resolve(head, ref) ==
    IF ref # "" THEN [requested |-> ref, commit |-> 1]
    ELSE [requested |-> "HEAD", commit |-> head]

LockedGit(dep, res) ==
    [source |-> "git", uri |-> dep.uri, path |-> "", profile |-> <<>>,
     requested |-> res.requested,
     commit |-> <<"git", res.commit>>, contentHash |-> <<>>, export |-> dep.export]
LockedLocal(dep, hash) ==
    [source |-> "local", uri |-> "", path |-> dep.path, profile |-> <<>>, requested |-> "",
     commit |-> <<"local">>, contentHash |-> hash, export |-> dep.export]
LockedProfile(id, hash, export) ==
    [source |-> ProfileSource, uri |-> "", path |-> "", profile |-> <<id>>, requested |-> "",
     commit |-> <<ProfileCommit>>, contentHash |-> hash, export |-> export]

\* One iteration of the loop of buildLock: the locked entry for dep, or the
\* error that ends the loop.  net = FALSE is a transport failure.
lockOne(dep, lp, head, st, net) ==
    LET source == dependencySource(dep) IN
    IF source = "git" THEN
        IF ~ net THEN [err |-> "prepare: transport error", entry |-> <<>>]
        ELSE LET res == Resolve(head, dep.ref)
                 ex == ExpandGitDependency(dep.export, res.commit)
             IN IF ex.err # "" THEN [err |-> ex.err, entry |-> <<>>]
                ELSE [err |-> "", entry |-> <<LockedGit(dep, res)>>]
    ELSE IF source = "local" THEN
        IF ~ resolveLocalPathOK(lp, dep.path) THEN [err |-> "local dependency path", entry |-> <<>>]
        ELSE LET ex == ExpandLocalDependency(lp, dep.path, dep.export)
             IN IF ex.err # "" THEN [err |-> ex.err, entry |-> <<>>]
                ELSE [err |-> "", entry |-> <<LockedLocal(dep, ex.hash)>>]
    ELSE IF source = ProfileSource THEN
        IF dep.profile = <<>> THEN [err |-> "profile source requires profile id", entry |-> <<>>]
        ELSE LET r == ResolveIDOrAlias(st, ByID(dep.profile[1])) IN
             IF r.err # "" THEN [err |-> r.err, entry |-> <<>>]
             ELSE LET depRead == profileDependencyForRead(dep)
                      ex == ExpandProfileDependency(r.dir[1], st[r.dir[1]], depRead.export)
                  IN IF ex.err # "" THEN [err |-> ex.err, entry |-> <<>>]
                     ELSE [err |-> "", entry |-> <<LockedProfile(r.meta[1].id, ex.hash, depRead.export)>>]
    ELSE [err |-> "unsupported source", entry |-> <<>>]

\* buildLock: resolve the dependencies in order; the first error ends it.
\* netFail is the index of the dependency at which the transport fails (0:
\* it never does).
RECURSIVE buildLockFrom(_, _, _, _, _, _, _)
buildLockFrom(i, acc, ds, lp, head, st, netFail) ==
    IF i > Len(ds) THEN [err |-> "", resolved |-> acc]
    ELSE LET one == lockOne(ds[i], lp, head, st, netFail # i)
         IN IF one.err # "" THEN [err |-> one.err, resolved |-> acc]
            ELSE buildLockFrom(i + 1, acc \o one.entry, ds, lp, head, st, netFail)

buildLock_mut(ds, lp, head, st, netFail) ==
    LET r == buildLockFrom(1, <<>>, ds, lp, head, st, netFail)
    IN [err |-> IF r.resolved = <<>> THEN r.err ELSE "", resolved |-> r.resolved]

buildLock(ds, lp, head, st, netFail) == buildLockFrom(1, <<>>, ds, lp, head, st, netFail)

-----------------------------------------------------------------------------
(* internal/build: ApplyOverrides, CheckDuplicateIDs *)

\* ApplyOverrides: the last override listed for an id wins (map index).
RECURSIVE overrideFor(_, _)
overrideFor(overrides, id) ==
    IF overrides = <<>> THEN <<>>
    ELSE IF overrides[Len(overrides)].id = id THEN <<overrides[Len(overrides)]>>
         ELSE overrideFor(SubSeq(overrides, 1, Len(overrides) - 1), id)

ApplyOverrides(modules, overrides) ==
    LET Over(m) == LET ov == overrideFor(overrides, m.id)
                   IN IF ov # <<>> /\ ov[1].priority # <<>>
                      THEN [m EXCEPT !.priority = ov[1].priority[1]]
                      ELSE m
    IN SeqMap(Over, modules)

\* CheckDuplicateIDs: TRUE when some id occurs twice.
CheckDuplicateIDs_mut(modules) == FALSE

CheckDuplicateIDs(modules) ==
    \E i, j \in 1..Len(modules) : i < j /\ modules[i].id = modules[j].id

-----------------------------------------------------------------------------
(* internal/render *)

\* sanitizeID of internal/render: '.' and every character outside
\* [a-zA-Z0-9._-] become '_'.
RenderSanitizeID(id) == IF id \in {"a b", "a.b"} THEN "a_b" ELSE id

\* resolveCursorApplyRule: targets["cursor"] when present, else default; an
\* empty mode is "always".
resolveCursorApplyRule(m) ==
    LET rule == IF m.apply.cursor # <<>> THEN m.apply.cursor
                ELSE IF m.apply.default # <<>> THEN m.apply.default
                ELSE <<"">>
        mode == IF rule[1] = "" THEN "always" ELSE rule[1]
    IN IF mode \in {"always", "never", "agent", "glob", "manual"}
       THEN [err |-> "", mode |-> mode]
       ELSE [err |-> "unsupported cursor apply mode", mode |-> mode]

CursorVisible(m) == resolveCursorApplyRule(m).mode # "never"

provenanceHeader(m) == <<m.packName, m.packVersion, m.commit, m.id, m.priority>>

CursorModulePath(m) == <<"cursor", m.priority, RenderSanitizeID(m.id)>>
CursorMergedPath == <<"cursor", "rules">>

\* cursorWritePaths: the paths WriteCursor is going to write.
cursorWritePaths(target, modules) ==
    LET cursorModules == SeqFilter(CursorVisible, modules) IN
    IF \E i \in 1..Len(modules) : resolveCursorApplyRule(modules[i]).err # ""
    THEN [err |-> "unsupported cursor apply mode", paths |-> <<>>]
    ELSE IF target.perModule
    THEN [err |-> "", paths |-> SeqMap(CursorModulePath, cursorModules)]
    ELSE IF \E i \in 1..Len(cursorModules) :
                resolveCursorApplyRule(cursorModules[i]).mode \in {"glob", "agent", "manual"}
    THEN [err |-> "perModule=false does not support apply mode", paths |-> <<>>]
    ELSE [err |-> "", paths |-> <<CursorMergedPath>>]

\* isRulepackManagedCursorContent: the file holds the provenance marker.
isRulepackManagedCursorContent(file) == file.marker

CursorUnmanagedOverwrites_mut(target, modules, fs) ==
    LET wp == cursorWritePaths(target, modules)
        Existing(path) == path \in DOMAIN fs
    IN [err |-> wp.err, paths |-> SeqFilter(Existing, wp.paths)]

\* CursorUnmanagedOverwrites: the write paths that hold an unmanaged file.
CursorUnmanagedOverwrites(target, modules, fs) ==
    LET wp == cursorWritePaths(target, modules)
        Unmanaged(path) == path \in DOMAIN fs /\ ~ isRulepackManagedCursorContent(fs[path])
    IN [err |-> wp.err, paths |-> SeqFilter(Unmanaged, wp.paths)]

\* cursorPerModuleContent: frontmatter, provenance header, content.
cursorPerModuleContent(m) ==
    [marker |-> TRUE,
     body |-> <<"mdc", resolveCursorApplyRule(m).mode, provenanceHeader(m), m.content>>]

\* merge: the module contents, each under its provenance header when asked.
merge(modules, includeProvenance) ==
    LET Part(m) == IF includeProvenance THEN <<provenanceHeader(m), m.content>>
                   ELSE <<m.content>>
    IN [marker |-> includeProvenance /\ modules # <<>>,
        body |-> <<"merged", SeqMap(Part, modules)>>]

\* A step of the write phase: a file write, or an error that ends the build.
WriteStep(path, file) == [fail |-> "", path |-> path, file |-> file]
FailStep(err) == [fail |-> err, path |-> <<>>, file |-> [marker |-> FALSE, body |-> <<>>]]

\* WriteCursor
WriteCursor(target, modules) ==
    LET cursorModules == SeqFilter(CursorVisible, modules)
        PerModule(m) == WriteStep(CursorModulePath(m), cursorPerModuleContent(m))
    IN IF \E i \in 1..Len(modules) : resolveCursorApplyRule(modules[i]).err # ""
       THEN <<FailStep("unsupported cursor apply mode")>>
       ELSE IF target.perModule THEN SeqMap(PerModule, cursorModules)
       ELSE IF \E i \in 1..Len(cursorModules) :
                   resolveCursorApplyRule(cursorModules[i]).mode \in {"glob", "agent", "manual"}
       THEN <<FailStep("perModule=false does not support apply mode")>>
       ELSE <<WriteStep(CursorMergedPath, merge(cursorModules, TRUE))>>

\* WriteMerged
WriteMerged(outFile, modules) ==
    IF outFile = "" THEN <<FailStep("missing output file")>>
    ELSE <<WriteStep(<<outFile>>, merge(modules, FALSE))>>

-----------------------------------------------------------------------------
(* cmd/rulepack: build *)

resolveTargets(target) ==
    IF target = "all" THEN <<"cursor", "copilot", "codex">> ELSE <<target>>

\* The body of the dependency loop of build for one index: alignment
\* checks, expansion and drift checks, in the order the code runs them.
expandOne_mut(dep, locked, lp, st, net) ==
    LET source == dependencySource(dep) IN
    IF source # lockSource(locked) THEN [err |-> "lockfile mismatch", mods |-> <<>>]
    ELSE IF source = "git" THEN
        IF dep.uri # locked.uri THEN [err |-> "lockfile mismatch", mods |-> <<>>]
        ELSE IF ~ net THEN [err |-> "transport error", mods |-> <<>>]
        ELSE LET ex == ExpandGitDependency(dep.export, locked.commit[2])
             IN [err |-> ex.err, mods |-> ex.mods]
    ELSE IF source = "local" THEN
        IF ~ resolveLocalPathOK(lp, dep.path) THEN [err |-> "local dependency path", mods |-> <<>>]
        ELSE LET ex == ExpandLocalDependency(lp, dep.path, dep.export)
             IN [err |-> ex.err, mods |-> ex.mods]
    ELSE LET r == ResolveIDOrAlias(st, ByID(dep.profile[1])) IN
         IF r.err # "" THEN [err |-> r.err, mods |-> <<>>]
         ELSE LET ex == ExpandProfileDependency(r.dir[1], st[r.dir[1]],
                                                 profileDependencyForRead(dep).export)
              IN [err |-> ex.err, mods |-> ex.mods]

expandOne(dep, locked, lp, st, net) ==
    LET source == dependencySource(dep) IN
    IF source # lockSource(locked) THEN [err |-> "lockfile mismatch", mods |-> <<>>]
    ELSE IF source = "git" THEN
        IF dep.uri # locked.uri THEN [err |-> "lockfile mismatch", mods |-> <<>>]
        ELSE IF ~ net THEN [err |-> "transport error", mods |-> <<>>]
        ELSE LET ex == ExpandGitDependency(dep.export, locked.commit[2])
             IN [err |-> ex.err, mods |-> ex.mods]
    ELSE IF source = "local" THEN
        IF ~ resolveLocalPathOK(lp, dep.path) THEN [err |-> "local dependency path", mods |-> <<>>]
        ELSE IF dep.path # locked.path THEN [err |-> "lockfile mismatch", mods |-> <<>>]
        ELSE LET ex == ExpandLocalDependency(lp, dep.path, dep.export) IN
             IF ex.err # "" THEN [err |-> ex.err, mods |-> <<>>]
             ELSE IF ex.hash # locked.contentHash
                  THEN [err |-> "local dependency changed", mods |-> <<>>]
                  ELSE [err |-> "", mods |-> ex.mods]
    ELSE IF source = ProfileSource THEN
        LET depProfile == IF dep.profile = <<>> THEN locked.profile ELSE dep.profile
            r == IF depProfile = <<>> THEN [err |-> "profile not found locally"]
                 ELSE ResolveIDOrAlias(st, ByID(depProfile[1]))
        IN IF r.err # "" THEN [err |-> r.err, mods |-> <<>>]
           ELSE IF locked.profile # <<>> /\ r.meta[1].id # locked.profile[1]
                THEN [err |-> "lockfile mismatch", mods |-> <<>>]
                ELSE LET ex == ExpandProfileDependency(r.dir[1], st[r.dir[1]],
                                                        profileDependencyForRead(dep).export) IN
                     IF ex.err # "" THEN [err |-> ex.err, mods |-> <<>>]
                     ELSE IF ex.hash # locked.contentHash
                          THEN [err |-> "profile snapshot drift", mods |-> <<>>]
                          ELSE [err |-> "", mods |-> ex.mods]
    ELSE [err |-> "unsupported source", mods |-> <<>>]

RECURSIVE composeFrom(_, _, _, _, _, _, _)
composeNext(one, i, acc, ds, resolved, lp, st, netFail) ==
    IF one.err # "" THEN [err |-> one.err, mods |-> <<>>]
    ELSE composeFrom(i + 1, acc \o one.mods, ds, resolved, lp, st, netFail)

composeFrom(i, acc, ds, resolved, lp, st, netFail) ==
    IF i > Len(ds) THEN [err |-> "", mods |-> acc]
    ELSE composeNext(expandOne(ds[i], resolved[i], lp, st, netFail # i),
                     i, acc, ds, resolved, lp, st, netFail)

\* ApplyOverrides, CheckDuplicateIDs and Sort on the expanded modules.
composeChecked(modules) ==
    IF CheckDuplicateIDs(modules) THEN [err |-> "duplicate module id", mods |-> <<>>]
    ELSE [err |-> "", mods |-> SortModules(modules)]

composeExpanded(c, ex) ==
    IF ex.err # "" THEN ex ELSE composeChecked(ApplyOverrides(ex.mods, c.overrides))

\* The module sequence of build: lockfile length check, expansion of every
\* dependency, overrides, duplicate check, sort.
composeModules(c, ds, lk, lp, st, netFail) ==
    IF ~ lk.exists THEN [err |-> "open rulepack.lock.json", mods |-> <<>>]
    ELSE IF Len(ds) # Len(lk.resolved) THEN [err |-> "lockfile mismatch", mods |-> <<>>]
    ELSE composeExpanded(c, composeFrom(1, <<>>, ds, lk.resolved, lp, st, netFail))

\* The preflight loop over the targets: the first error, else the
\* unmanaged cursor collisions.
RECURSIVE preflight(_, _, _, _, _, _)
preflightCursor(col, k, targets, c, modules, fs, acc) ==
    IF col.err # "" THEN [err |-> col.err, collisions |-> <<>>]
    ELSE preflight(k + 1, targets, c, modules, fs, acc \o col.paths)

preflight(k, targets, c, modules, fs, acc) ==
    IF k > Len(targets) THEN [err |-> "", collisions |-> acc]
    ELSE IF targets[k] \notin DOMAIN c.targets
         THEN [err |-> "target not configured", collisions |-> <<>>]
         ELSE IF targets[k] = "cursor"
              THEN preflightCursor(CursorUnmanagedOverwrites(c.targets["cursor"], modules, fs),
                                   k, targets, c, modules, fs, acc)
              ELSE preflight(k + 1, targets, c, modules, fs, acc)

\* The write loop over the targets, as the sequence of its steps.
RECURSIVE writeSteps(_, _, _, _)
writeSteps(k, targets, c, modules) ==
    IF k > Len(targets) THEN <<>>
    ELSE (IF targets[k] \notin DOMAIN c.targets THEN <<FailStep("target not configured")>>
          ELSE IF targets[k] = "cursor" THEN WriteCursor(c.targets["cursor"], modules)
          ELSE WriteMerged(c.targets[targets[k]].outFile, modules))
         \o writeSteps(k + 1, targets, c, modules)

\* Run the steps in order on the file tree fs; the ioFail-th step meets an
\* I/O error (0: none does).  Ends at the first failing step.
RECURSIVE runSteps(_, _, _, _)
runSteps(steps, k, fs, ioFail) ==
    IF k > Len(steps) THEN [err |-> "", files |-> fs]
    ELSE IF steps[k].fail # "" THEN [err |-> steps[k].fail, files |-> fs]
    ELSE IF k = ioFail THEN [err |-> "write error", files |-> fs]
    ELSE runSteps(steps, k + 1, MapPut(fs, steps[k].path, steps[k].file), ioFail)

\* The write loop of build, after the risk gate.
buildWritten(modules, run) == [err |-> run.err, mods |-> modules, files |-> run.files]

buildGated_mut(pre, c, targets, modules, fs, yes, ioFail) ==
    IF pre.err # "" THEN [err |-> pre.err, mods |-> <<>>, files |-> fs]
    ELSE buildWritten(modules, runSteps(writeSteps(1, targets, c, modules), 1, fs, ioFail))

\* The risk gate of build: unmanaged cursor files need --yes.
buildGated(pre, c, targets, modules, fs, yes, ioFail) ==
    IF pre.err # "" THEN [err |-> pre.err, mods |-> <<>>, files |-> fs]
    ELSE IF pre.collisions # <<>> /\ ~ yes
         THEN [err |-> "rerun with --yes", mods |-> <<>>, files |-> fs]
         ELSE buildWritten(modules, runSteps(writeSteps(1, targets, c, modules), 1, fs, ioFail))

buildTargets(c, targets, modules, fs, yes, ioFail) ==
    buildGated(preflight(1, targets, c, modules, fs, <<>>), c, targets, modules, fs, yes, ioFail)

buildComposed(comp, c, fs, target, yes, ioFail) ==
    IF comp.err # "" THEN [err |-> comp.err, mods |-> <<>>, files |-> fs]
    ELSE buildTargets(c, resolveTargets(target), comp.mods, fs, yes, ioFail)

\* The build command: [err, mods, files].
buildCmd(c, ds, lk, lp, st, fs, target, yes, netFail, ioFail) ==
    buildComposed(composeModules(c, ds, lk, lp, st, netFail), c, fs, target, yes, ioFail)

-----------------------------------------------------------------------------
(* cmd/rulepack: profile save and profile refresh *)

moduleIDs(modules) == {modules[i].id : i \in 1..Len(modules)}

Source(type, ref, export, ids) ==
    [sourceType |-> type, sourceRef |-> ref, sourceExport |-> export, moduleIds |-> ids]

\* expandDependencyForSnapshot: the modules, content hash and source
\* reference of one installed dependency.
expandDependencyForSnapshot(dep, locked, lp, st, net) ==
    LET source == dependencySource(dep)
        notInstalled == [err |-> "cannot save profile: dependency not installed",
                         mods |-> <<>>, hash |-> <<>>, ref |-> <<>>]
    IN
    IF source # lockSource(locked) THEN notInstalled
    ELSE IF source = "git" THEN
        IF dep.uri # locked.uri THEN notInstalled
        ELSE IF ~ net THEN [notInstalled EXCEPT !.err = "transport error"]
        ELSE LET ex == ExpandGitDependency(dep.export, locked.commit[2]) IN
             IF ex.err # "" THEN [notInstalled EXCEPT !.err = ex.err]
             ELSE [err |-> "", mods |-> ex.mods,
                   hash |-> ComputeContentHash(ex.mods, dep.export), ref |-> <<dep.uri>>]
    ELSE IF source = "local" THEN
        IF ~ resolveLocalPathOK(lp, dep.path)
        THEN [notInstalled EXCEPT !.err = "local dependency path"]
        ELSE IF locked.path # "" /\ dep.path # locked.path THEN notInstalled
        ELSE LET ex == ExpandLocalDependency(lp, dep.path, dep.export) IN
             IF ex.err # "" THEN [notInstalled EXCEPT !.err = ex.err]
             ELSE IF locked.contentHash # <<>> /\ ex.hash # locked.contentHash THEN notInstalled
             ELSE [err |-> "", mods |-> ex.mods, hash |-> ex.hash, ref |-> <<dep.path>>]
    ELSE LET profileRef == IF dep.profile = <<>> THEN locked.profile ELSE dep.profile
             r == IF profileRef = <<>> THEN [err |-> "profile not found locally"]
                  ELSE ResolveIDOrAlias(st, ByID(profileRef[1]))
         IN IF r.err # "" THEN [notInstalled EXCEPT !.err = r.err]
            ELSE IF locked.profile # <<>> /\ r.meta[1].id # locked.profile[1] THEN notInstalled
            ELSE LET ex == ExpandProfileDependency(r.dir[1], st[r.dir[1]],
                                                    profileDependencyForRead(dep).export) IN
                 IF ex.err # "" THEN [notInstalled EXCEPT !.err = ex.err]
                 ELSE IF locked.contentHash # <<>> /\ ex.hash # locked.contentHash THEN notInstalled
                 ELSE [err |-> "", mods |-> ex.mods, hash |-> ex.hash, ref |-> <<r.meta[1].id>>]

ModuleID(m) == m.id

\* buildSortStrings on the ids collected from a map: the ids in ascending
\* string order.
buildSortStrings(ids) ==
    LET Member(i) == IdOrder[i] \in ids IN SelectIndices(IdOrder, Member)

mergeRefreshedModules_mut(current, fresh, noRules, rules) ==
    [err |-> "", mods |-> SortModules(fresh), refreshed |-> SeqMap(ModuleID, fresh)]

\* mergeRefreshedModules: rules is the set of ids the --rule patterns match
\* (none given: noRules).
mergeRefreshedModules(current, fresh, noRules, rules) ==
    IF noRules THEN [err |-> "", mods |-> SortModules(fresh), refreshed |-> SeqMap(ModuleID, fresh)]
    ELSE LET freshIds == moduleIDs(fresh)
             FreshByID(id) == LET idx == CHOOSE i \in 1..Len(fresh) :
                                       /\ fresh[i].id = id
                                       /\ \A j \in (i + 1)..Len(fresh) : fresh[j].id # id
                              IN fresh[idx]
             Replace(m) == IF m.id \in rules THEN FreshByID(m.id) ELSE m
             changedCur == {current[i].id : i \in {j \in 1..Len(current) : current[j].id \in rules}}
             AddedAt(i) == /\ fresh[i].id \in rules
                           /\ fresh[i].id \notin changedCur
                           /\ \A j \in 1..(i - 1) : fresh[j].id # fresh[i].id
             added == SelectIndices(fresh, AddedAt)
             changed == changedCur \cup moduleIDs(added)
         IN IF \E id \in changedCur : id \notin freshIds
            THEN [err |-> "rule not found in refreshed source", mods |-> <<>>, refreshed |-> <<>>]
            ELSE IF changed = {}
                 THEN [err |-> "no rules matched --rule selectors", mods |-> <<>>, refreshed |-> <<>>]
                 ELSE [err |-> "", mods |-> SortModules(SeqMap(Replace, current) \o added),
                       refreshed |-> buildSortStrings(changed)]

\* moduleDigest and diffModules: the ids changed, added and removed.
moduleDigest(m) == <<m.id, m.priority, m.content, m.apply>>

LastByID(modules, id) ==
    modules[CHOOSE i \in 1..Len(modules) :
                /\ modules[i].id = id
                /\ \A j \in (i + 1)..Len(modules) : modules[j].id # id]

diffModules(current, fresh) ==
    [changed |-> {id \in moduleIDs(current) \cap moduleIDs(fresh) :
                     moduleDigest(LastByID(current, id)) # moduleDigest(LastByID(fresh, id))},
     added |-> moduleIDs(fresh) \ moduleIDs(current),
     removed |-> moduleIDs(current) \ moduleIDs(fresh)]

\* collectSnapshotForAllDependencies: every dependency expanded as for a
\* single-dependency save, concatenated in manifest order, one source each.
RECURSIVE collectFrom(_, _, _, _, _, _, _, _)
collectNext(ex, i, mods, sources, ds, resolved, lp, st, netFail) ==
    IF ex.err # "" THEN [err |-> ex.err, mods |-> <<>>, sources |-> <<>>]
    ELSE collectFrom(i + 1, mods \o ex.mods,
                     Append(sources, Source(dependencySource(ds[i]), ex.ref,
                                            ds[i].export, moduleIDs(ex.mods))),
                     ds, resolved, lp, st, netFail)

collectFrom(i, mods, sources, ds, resolved, lp, st, netFail) ==
    IF i > Len(ds) THEN [err |-> "", mods |-> mods, sources |-> sources]
    ELSE collectNext(expandDependencyForSnapshot(ds[i], resolved[i], lp, st, netFail # i),
                     i, mods, sources, ds, resolved, lp, st, netFail)

collectSnapshotForAllDependencies(ds, resolved, lp, st, netFail) ==
    collectFrom(1, <<>>, <<>>, ds, resolved, lp, st, netFail)

\* The result of profile save from the result of SaveSnapshot.
saveResult(sv) == [err |-> sv.err, store |-> sv.store]

\* profile save --dep <index>: one source, hashed as the dependency is.
saveOne(ex, dep, st, alias, now) ==
    IF ex.err # "" THEN [err |-> ex.err, store |-> st]
    ELSE saveResult(SaveSnapshot(st, <<>>, alias,
                                 <<Source(dependencySource(dep), ex.ref, dep.export,
                                          moduleIDs(ex.mods))>>,
                                 ex.hash, ex.mods, now))

\* profile save of every dependency: one combined snapshot.
saveAll(all, st, alias, now) ==
    IF all.err # "" THEN [err |-> all.err, store |-> st]
    ELSE saveResult(SaveSnapshot(st, <<>>, alias, all.sources,
                                 ComputeContentHash(all.mods, "default"), all.mods, now))

\* The profile save command (without --switch): depSel = 0 saves all
\* dependencies, depSel = i saves dependency i.
saveCmd(ds, lk, lp, st, depSel, alias, netFail, now) ==
    IF ~ lk.exists THEN [err |-> "open rulepack.lock.json", store |-> st]
    ELSE IF Len(ds) # Len(lk.resolved)
    THEN [err |-> "cannot save profile: dependency not installed", store |-> st]
    ELSE IF depSel # 0
    THEN saveOne(expandDependencyForSnapshot(ds[depSel], lk.resolved[depSel], lp, st,
                                             netFail # depSel),
                 ds[depSel], st, alias, now)
    ELSE saveAll(collectSnapshotForAllDependencies(ds, lk.resolved, lp, st, netFail),
                 st, alias, now)

\* meta.ID of the snapshot a successful profile save wrote.
savedID(ds, lk, lp, st, depSel, netFail) ==
    IF depSel # 0
    THEN LET ex == expandDependencyForSnapshot(ds[depSel], lk.resolved[depSel], lp, st,
                                               netFail # depSel)
         IN buildID(<<Source(dependencySource(ds[depSel]), ex.ref, ds[depSel].export,
                             moduleIDs(ex.mods))>>, ex.hash)
    ELSE LET all == collectSnapshotForAllDependencies(ds, lk.resolved, lp, st, netFail)
         IN buildID(all.sources, ComputeContentHash(all.mods, "default"))

\* The manifest --switch writes: the saved dependency, or every dependency,
\* becomes a dependency on the profile.
switchDependencies(ds, depSel, id) ==
    IF depSel # 0 THEN [ds EXCEPT ![depSel] = ProfileDep(id)] ELSE <<ProfileDep(id)>>

\* The tail of profile save --switch: SaveRuleset, buildLock, SaveLockfile.
switchLock(sv, nds, lk, lp, head, netFail) ==
    LET nl == buildLock(nds, lp, head, sv.store, netFail)
    IN IF nl.err # ""
       THEN [err |-> nl.err, store |-> sv.store, deps |-> nds, lock |-> lk]
       ELSE [err |-> "", store |-> sv.store, deps |-> nds,
             lock |-> [exists |-> TRUE, resolved |-> nl.resolved]]

\* profile save --switch
saveSwitchCmd(ds, lk, lp, head, st, depSel, alias, netFail, now) ==
    LET sv == saveCmd(ds, lk, lp, st, depSel, alias, netFail, now)
    IN IF sv.err # "" THEN [err |-> sv.err, store |-> sv.store, deps |-> ds, lock |-> lk]
       ELSE switchLock(sv, switchDependencies(ds, depSel,
                                              savedID(ds, lk, lp, st, depSel, netFail)),
                       lk, lp, head, netFail)

\* resolveFreshModulesForProfile: best effort over the sources of the
\* profile; a source that cannot be resolved keeps its stored modules.
freshForSource(src, old, lp, head, st, net) ==
    LET Stored(m) == m.id \in src.moduleIds
        kept == SeqFilter(Stored, old)
    IN IF src.sourceType = "git"
       THEN IF ~ net THEN kept
            ELSE LET ex == ExpandGitDependency(src.sourceExport, head)
                 IN IF ex.err # "" THEN kept ELSE ex.mods
       ELSE IF src.sourceType = "local"
       THEN IF ~ resolveLocalPathOK(lp, src.sourceRef[1]) THEN kept
            ELSE LET ex == ExpandLocalDependency(lp, src.sourceRef[1], src.sourceExport)
                 IN IF ex.err # "" THEN kept ELSE ex.mods
       ELSE LET r == ResolveIDOrAlias(st, ByID(src.sourceRef[1]))
            IN IF r.err # "" THEN kept
               ELSE LET ex == ExpandProfileDependency(r.dir[1], st[r.dir[1]], "default")
                    IN IF ex.err # "" THEN kept ELSE ex.mods

RECURSIVE resolveFreshModulesForProfile(_, _, _, _, _, _)
resolveFreshModulesForProfile(sources, old, lp, head, st, net) ==
    IF sources = <<>> THEN <<>>
    ELSE freshForSource(Head(sources), old, lp, head, st, net)
         \o resolveFreshModulesForProfile(Tail(sources), old, lp, head, st, net)

refreshSave_ungated(d, st, meta, mods, newID, dryRun, yes, now) ==
    IF dryRun THEN [err |-> "", store |-> st]
    ELSE saveResult(SaveSnapshot(st, IF newID THEN <<>> ELSE <<meta.id>>, meta.alias,
                                 meta.sources, ComputeContentHash(mods, "default"), mods, now))

refreshSave_wet(d, st, meta, mods, newID, dryRun, yes, now) ==
    IF ~ newID /\ ~ dryRun /\ (d.changed \cup d.added \cup d.removed) # {} /\ ~ yes
    THEN [err |-> "rerun with --yes", store |-> st]
    ELSE saveResult(SaveSnapshot(st, IF newID THEN <<>> ELSE <<meta.id>>, meta.alias,
                                 meta.sources, ComputeContentHash(mods, "default"), mods, now))

\* The end of profile refresh: the risk gate, --dry-run, then SaveSnapshot
\* under the old id, or under a new one with --new-id.
refreshSave(d, st, meta, mods, newID, dryRun, yes, now) ==
    IF ~ newID /\ ~ dryRun /\ (d.changed \cup d.added \cup d.removed) # {} /\ ~ yes
    THEN [err |-> "rerun with --yes", store |-> st]
    ELSE IF dryRun THEN [err |-> "", store |-> st]
    ELSE saveResult(SaveSnapshot(st, IF newID THEN <<>> ELSE <<meta.id>>, meta.alias,
                                 meta.sources, ComputeContentHash(mods, "default"), mods, now))

refreshMerged(merged, old, st, meta, newID, dryRun, yes, now) ==
    IF merged.err # "" THEN [err |-> merged.err, store |-> st]
    ELSE refreshSave(diffModules(old.mods, merged.mods), st, meta, merged.mods,
                     newID, dryRun, yes, now)

refreshExpanded(old, st, lp, head, meta, noRules, rules, newID, dryRun, yes, net, now) ==
    IF old.err # "" THEN [err |-> old.err, store |-> st]
    ELSE refreshMerged(
             mergeRefreshedModules(
                 old.mods,
                 resolveFreshModulesForProfile(meta.sources, old.mods, lp, head, st, net),
                 noRules, rules),
             old, st, meta, newID, dryRun, yes, now)

refreshResolved(r, st, lp, head, noRules, rules, newID, dryRun, yes, net, now) ==
    IF r.err # "" THEN [err |-> r.err, store |-> st]
    ELSE refreshExpanded(ExpandProfileDependency(r.meta[1].id, st[r.meta[1].id], "default"),
                         st, lp, head, r.meta[1], noRules, rules, newID, dryRun, yes, net, now)

\* The profile refresh command on profile ref: [err, store].
refreshCmd(st, lp, head, ref, noRules, rules, newID, dryRun, yes, net, now) ==
    refreshResolved(ResolveIDOrAlias(st, ref), st, lp, head, noRules, rules, newID, dryRun,
                    yes, net, now)

-----------------------------------------------------------------------------
(* State machine *)

Target(perModule, outFile) == [perModule |-> perModule, outFile |-> outFile]

DefaultTargets ==
    [t \in {"cursor", "copilot", "codex"} |->
        IF t = "cursor" THEN Target(TRUE, "")
        ELSE IF t = "copilot" THEN Target(FALSE, "copilot-instructions.md")
        ELSE Target(FALSE, "rules.md")]

\* The manifests the model starts from: the default ruleset; a ruleset with a
\* priority override, a merged cursor file and a copilot target without
\* outFile; a ruleset with a priority override and no codex target.
CfgChoices ==
    { [overrides |-> <<>>, targets |-> DefaultTargets],
      [overrides |-> <<[id |-> "c", priority |-> <<3>>]>>,
       targets |-> [DefaultTargets EXCEPT !["cursor"] = Target(FALSE, ""),
                                          !["copilot"] = Target(FALSE, "")]],
      [overrides |-> <<[id |-> "c", priority |-> <<3>>], [id |-> "zz", priority |-> <<>>]>>,
       targets |-> [t \in {"cursor", "copilot"} |-> DefaultTargets[t]]] }

\* Dependencies that deps add can write: the local packs (pb also with an
\* export it does not define) and the git pack.
AddChoices ==
    { LocalDep("pa", ""), LocalDep("pb", ""), LocalDep("pb", "zz"), GitDep("") }

\* Requests deps add can state for the git pack: HEAD or the tag, the
\* default export unnamed or named.
PinChoices == { GitDep(""), GitDep("default"), GitDepRef("", GitTag) }

TargetFlags == {"all", "cursor"}
MaxIoStep == 3
MaxList == 2
UserPaths == {<<"cursor", 1, "a">>, <<"cursor", "rules">>}
ProfileRefs(st) == {ByID(id) : id \in DOMAIN st} \cup {ByAlias(a) : a \in Aliases}

Outcome(cmd, err) == [cmd |-> cmd, err |-> err]

InitWith(cfgs, st) ==
    /\ cfg \in cfgs
    /\ deps = <<>>
    /\ lock = [exists |-> FALSE, resolved |-> <<>>]
    /\ localPacks = [p \in LocalPaths |-> [exists |-> TRUE, content |-> [f \in PackPaths(p) |-> 1]]]
    /\ gitHead = 1
    /\ store = st
    /\ files = EmptyMap
    /\ clock = 0
    /\ composed = <<>>
    /\ last = Outcome("init", "")

dependencyMatchKey(dep) == dependencyReference(dep)

\* deps add
DepsAdd(dep, yes) ==
    LET hit == {i \in 1..Len(deps) :
                   /\ dependencySource(deps[i]) = dependencySource(dep)
                   /\ dependencyMatchKey(deps[i]) = dependencyMatchKey(dep)}
        replaced == hit # {}
        first == CHOOSE i \in hit : \A j \in hit : i <= j
    IN /\ replaced \/ Len(deps) < MaxDeps
       /\ dep \in AddChoices \cup PinChoices
       /\ IF replaced /\ ~ yes
          THEN /\ deps' = deps
               /\ last' = Outcome("add", "rerun with --yes")
          ELSE /\ deps' = IF replaced THEN [deps EXCEPT ![first] = dep] ELSE Append(deps, dep)
               /\ last' = Outcome("add", "")
       /\ composed' = <<>>
       /\ UNCHANGED <<cfg, lock, localPacks, gitHead, store, files, clock>>

\* deps remove <index>
DepsRemove(idx) ==
    /\ idx \in 1..Len(deps)
    /\ deps' = SubSeq(deps, 1, idx - 1) \o SubSeq(deps, idx + 1, Len(deps))
    /\ last' = Outcome("remove", "")
    /\ composed' = <<>>
    /\ UNCHANGED <<cfg, lock, localPacks, gitHead, store, files, clock>>

\* profile use <profile-id-or-alias>
ProfileUse(ref) ==
    \E r \in {ResolveIDOrAlias(store, ref)} :
    /\ IF r.err # ""
       THEN /\ deps' = deps
            /\ last' = Outcome("profile.use", r.err)
       ELSE LET dep == ProfileDep(r.meta[1].id)
                hit == {i \in 1..Len(deps) :
                           /\ dependencySource(deps[i]) = ProfileSource
                           /\ deps[i].profile = <<r.meta[1].id>>}
                first == CHOOSE i \in hit : \A j \in hit : i <= j
            IN /\ hit # {} \/ Len(deps) < MaxDeps
               /\ deps' = IF hit # {} THEN [deps EXCEPT ![first] = dep] ELSE Append(deps, dep)
               /\ last' = Outcome("profile.use", "")
    /\ composed' = <<>>
    /\ UNCHANGED <<cfg, lock, localPacks, gitHead, store, files, clock>>

\* deps install
Install_mut(netFail) ==
    \E r \in {buildLock(deps, localPacks, gitHead, store, netFail)} :
    /\ netFail \in 0..Len(deps)
    /\ lock' = [exists |-> TRUE, resolved |-> r.resolved]
    /\ last' = Outcome("install", r.err)
    /\ composed' = <<>>
    /\ UNCHANGED <<cfg, deps, localPacks, gitHead, store, files, clock>>

Install_append(netFail) ==
    \E r \in {buildLock(deps, localPacks, gitHead, store, netFail)} :
    /\ netFail \in 0..Len(deps)
    /\ IF r.err # ""
       THEN /\ lock' = lock
            /\ last' = Outcome("install", r.err)
       ELSE /\ lock' = [exists |-> TRUE, resolved |-> lock.resolved \o r.resolved]
            /\ last' = Outcome("install", "")
    /\ composed' = <<>>
    /\ UNCHANGED <<cfg, deps, localPacks, gitHead, store, files, clock>>

Install(netFail) ==
    \E r \in {buildLock(deps, localPacks, gitHead, store, netFail)} :
    /\ netFail \in 0..Len(deps)
    /\ IF r.err # ""
       THEN /\ lock' = lock
            /\ last' = Outcome("install", r.err)
       ELSE /\ lock' = [exists |-> TRUE, resolved |-> r.resolved]
            /\ last' = Outcome("install", "")
    /\ composed' = <<>>
    /\ UNCHANGED <<cfg, deps, localPacks, gitHead, store, files, clock>>

\* build --target <target> [--yes]
Build(target, yes, netFail, ioFail) ==
    \E r \in {buildCmd(cfg, deps, lock, localPacks, store, files, target, yes, netFail, ioFail)} :
    /\ netFail \in 0..Len(deps)
    /\ files' = r.files
    /\ composed' = r.mods
    /\ last' = Outcome("build", r.err)
    /\ UNCHANGED <<cfg, deps, lock, localPacks, gitHead, store, clock>>

\* profile save [--dep <index>] --alias <alias>
ProfileSave(depSel, alias, netFail) ==
    /\ depSel \in 0..Len(deps)
    /\ netFail \in 0..Len(deps)
    /\ \E r \in {saveCmd(deps, lock, localPacks, store, depSel, alias, netFail, clock)} :
          /\ Cardinality(DOMAIN r.store) <= MaxProfiles
          /\ store' = r.store
          /\ last' = Outcome("profile.save", r.err)
    /\ composed' = <<>>
    /\ UNCHANGED <<cfg, deps, lock, localPacks, gitHead, files, clock>>

\* profile save [--dep <index>] --alias <alias> --switch
ProfileSaveSwitch(depSel, alias, netFail) ==
    /\ depSel \in 0..Len(deps)
    /\ netFail \in 0..Len(deps)
    /\ \E r \in {saveSwitchCmd(deps, lock, localPacks, gitHead, store, depSel, alias,
                               netFail, clock)} :
          /\ Cardinality(DOMAIN r.store) <= MaxProfiles
          /\ store' = r.store
          /\ deps' = r.deps
          /\ lock' = r.lock
          /\ last' = Outcome("profile.save.switch", r.err)
    /\ composed' = <<>>
    /\ UNCHANGED <<cfg, localPacks, gitHead, files, clock>>

\* profile refresh <ref> [--rule ...] [--new-id] [--dry-run] [--yes]
ProfileRefresh(ref, noRules, rules, newID, dryRun, yes, net) ==
    \E r \in {refreshCmd(store, localPacks, gitHead, ref, noRules, rules, newID, dryRun, yes,
                       net, clock)} :
    /\ Cardinality(DOMAIN r.store) <= MaxProfiles
    /\ store' = r.store
    /\ last' = Outcome("profile.refresh", r.err)
    /\ composed' = <<>>
    /\ UNCHANGED <<cfg, deps, lock, localPacks, gitHead, files, clock>>

\* profile show <ref>
ProfileShow(ref) ==
    /\ last' = Outcome("profile.show", ResolveIDOrAlias(store, ref).err)
    /\ composed' = <<>>
    /\ UNCHANGED <<cfg, deps, lock, localPacks, gitHead, store, files, clock>>

\* profile remove <ref> [--yes]
ProfileRemove(ref, yes) ==
    \E r \in {ResolveIDOrAlias(store, ref)} :
    /\ IF ~ yes
       THEN /\ store' = store
            /\ last' = Outcome("profile.remove", "profile remove requires --yes")
       ELSE IF r.err # ""
            THEN /\ store' = store
                 /\ last' = Outcome("profile.remove", r.err)
            ELSE /\ store' = MapDel(store, r.dir[1])
                 /\ last' = Outcome("profile.remove", "")
    /\ composed' = <<>>
    /\ UNCHANGED <<cfg, deps, lock, localPacks, gitHead, files, clock>>

\* profile remove --all --yes
ProfileRemoveAll ==
    /\ store' = [d \in {x \in DOMAIN store : ~ readProfileOK(store[x])} |-> store[d]]
    /\ last' = Outcome("profile.remove", "")
    /\ composed' = <<>>
    /\ UNCHANGED <<cfg, deps, lock, localPacks, gitHead, files, clock>>

\* The user edits a module file of a local pack.
EditLocal(p, f, v) ==
    /\ localPacks[p].exists
    /\ f \in PackPaths(p)
    /\ v # localPacks[p].content[f]
    /\ localPacks' = [localPacks EXCEPT ![p].content[f] = v]
    /\ last' = Outcome("env", "")
    /\ composed' = <<>>
    /\ UNCHANGED <<cfg, deps, lock, gitHead, store, files, clock>>

\* The user deletes a local pack directory.
DeleteLocal(p) ==
    /\ localPacks[p].exists
    /\ localPacks' = [localPacks EXCEPT ![p] = [exists |-> FALSE, content |-> EmptyMap]]
    /\ last' = Outcome("env", "")
    /\ composed' = <<>>
    /\ UNCHANGED <<cfg, deps, lock, gitHead, store, files, clock>>

\* A commit is pushed to the remote repository.
GitPush ==
    /\ gitHead < MaxCommit
    /\ gitHead' = gitHead + 1
    /\ last' = Outcome("env", "")
    /\ composed' = <<>>
    /\ UNCHANGED <<cfg, deps, lock, localPacks, store, files, clock>>

\* Time passes between two commands.
Tick ==
    /\ clock < MaxClock
    /\ clock' = clock + 1
    /\ last' = Outcome("env", "")
    /\ composed' = <<>>
    /\ UNCHANGED <<cfg, deps, lock, localPacks, gitHead, store, files>>

\* The user writes a file of their own at a cursor output path.
UserWriteFile(path) ==
    /\ path \notin DOMAIN files
    /\ files' = MapPut(files, path, [marker |-> FALSE, body |-> <<"user">>])
    /\ last' = Outcome("env", "")
    /\ composed' = <<>>
    /\ UNCHANGED <<cfg, deps, lock, localPacks, gitHead, store, clock>>

\* Resolver and composer: manifest edits, install and build over git and
\* local dependencies, with transport failures and source edits.
Init == InitWith({[overrides |-> <<>>, targets |-> DefaultTargets]}, EmptyMap)

Next ==
    \/ \E dep \in AddChoices, yes \in BOOLEAN : DepsAdd(dep, yes)
    \/ \E idx \in 1..MaxDeps : DepsRemove(idx)
    \/ \E netFail \in 0..MaxDeps : Install(netFail)
    \/ \E netFail \in 0..MaxDeps : Build("cursor", FALSE, netFail, 0)
    \/ \E v \in Contents : EditLocal("pb", "c.md", v)
    \/ DeleteLocal("pb")
    \/ GitPush

Spec == Init /\ [][Next]_vars

\* Profile dependencies: a project that uses a profile saved earlier from
\* pack pb (deps add pb; deps install; profile save --dep 1 --alias p).
SavedStore ==
    LET ds == <<LocalDep("pb", "")>>
        lp == [p \in LocalPaths |-> [exists |-> TRUE, content |-> [f \in PackPaths(p) |-> 1]]]
        lk == buildLock(ds, lp, 1, EmptyMap, 0)
    IN saveCmd(ds, [exists |-> TRUE, resolved |-> lk.resolved], lp, EmptyMap, 1, "p", 0, 0).store

InitProfileDep == InitWith({[overrides |-> <<>>, targets |-> DefaultTargets]}, SavedStore)

NextProfileDep ==
    \/ DepsAdd(LocalDep("pb", ""), TRUE)
    \/ \E idx \in 1..MaxDeps : DepsRemove(idx)
    \/ ProfileUse(ByAlias("p"))
    \/ Install(0)
    \/ Build("codex", FALSE, 0, 0)
    \/ ProfileRefresh(ByAlias("p"), TRUE, {}, FALSE, FALSE, TRUE, TRUE)
    \/ ProfileRemove(ByAlias("p"), TRUE)
    \/ \E v \in Contents : EditLocal("pb", "c.md", v)

SpecProfileDep == InitProfileDep /\ [][NextProfileDep]_vars

\* Renderers: builds under every manifest, with write failures and files
\* written by the user at cursor output paths.
InitRender == InitWith(CfgChoices, EmptyMap)

NextRender ==
    \/ \E dep \in AddChoices \ {LocalDep("pb", "zz")} : DepsAdd(dep, TRUE)
    \/ \E idx \in 1..MaxDeps : DepsRemove(idx)
    \/ Install(0)
    \/ \E target \in TargetFlags, yes \in BOOLEAN, ioFail \in 0..MaxIoStep :
          Build(target, yes, 0, ioFail)
    \/ \E path \in UserPaths : UserWriteFile(path)

SpecRender == InitRender /\ [][NextRender]_vars

\* Profile store: save, refresh and remove over an installed local pack.
NextStore ==
    \/ DepsAdd(LocalDep("pa", ""), TRUE)
    \/ Install(0)
    \/ \E alias \in Aliases : ProfileSave(1, alias, 0)
    \/ \E ref \in ProfileRefs(store), newID \in BOOLEAN :
          ProfileRefresh(ref, TRUE, {}, newID, FALSE, TRUE, TRUE)
    \/ \E ref \in ProfileRefs(store), yes \in BOOLEAN : ProfileRemove(ref, yes)
    \/ ProfileRemoveAll
    \/ \E v \in Contents : EditLocal("pa", "a.md", v)
    \/ Tick

SpecStore == Init /\ [][NextStore]_vars

\* Profile refresh: a profile of pack pa, taken when the pack held the
\* modules of kept, refreshed under every combination of flags while the
\* pack is edited.
StoredProfile(kept) ==
    LET lp == [p \in LocalPaths |-> [exists |-> TRUE, content |-> [f \in PackPaths(p) |-> 1]]]
        Kept(m) == m.id \in kept
        mods == SeqFilter(Kept, ExpandLocalDependency(lp, "pa", "").mods)
    IN SaveSnapshot(EmptyMap, <<>>, "p", <<Source("local", <<"pa">>, "", moduleIDs(mods))>>,
                    ComputeContentHash(mods, "default"), mods, 0).store

RuleChoices ==
    { [noRules |-> TRUE, rules |-> {}],
      [noRules |-> FALSE, rules |-> {"a"}],
      [noRules |-> FALSE, rules |-> {"b"}],
      [noRules |-> FALSE, rules |-> {"a", "b"}],
      [noRules |-> FALSE, rules |-> {"c"}] }

RefreshRefs(st) == {ByAlias("p")} \cup {ByID(id) : id \in DOMAIN st}

InitRefresh ==
    \E kept \in {{"a"}, {"b"}, {"a", "b"}} :
        InitWith({[overrides |-> <<>>, targets |-> DefaultTargets]}, StoredProfile(kept))

NextRefresh ==
    \/ \E f \in PackPaths("pa"), v \in Contents : EditLocal("pa", f, v)
    \/ \E ref \in RefreshRefs(store), sel \in RuleChoices, newID, dryRun, yes \in BOOLEAN :
          ProfileRefresh(ref, sel.noRules, sel.rules, newID, dryRun, yes, TRUE)

SpecRefresh == InitRefresh /\ [][NextRefresh]_vars

\* A store that holds a profile written in the old format: profile.json
\* with sourceType/sourceRef/sourceExport and no sources[].
LegacyID == [src |-> <<>>, h |-> <<"legacy123">>]

LegacyDir ==
    [meta |-> <<[id |-> LegacyID, alias |-> "p", sources |-> <<>>, createdAt |-> 0,
                 contentHash |-> <<"deadbeef">>, moduleCount |-> 1]>>,
     rp |-> <<>>, mfiles |-> EmptyMap]

InitLegacy ==
    InitWith({[overrides |-> <<>>, targets |-> DefaultTargets]}, MapPut(EmptyMap, LegacyID, LegacyDir))

NextLegacy ==
    \/ DepsAdd(LocalDep("pa", ""), TRUE)
    \/ Install(0)
    \/ \E alias \in Aliases : ProfileSave(1, alias, 0)
    \/ \E ref \in ProfileRefs(store) : ProfileShow(ref)
    \/ \E ref \in ProfileRefs(store) : ProfileRemove(ref, TRUE)
    \/ \E v \in Contents : EditLocal("pa", "a.md", v)
    \/ Tick

SpecLegacy == InitLegacy /\ [][NextLegacy]_vars

\* Loading rulepack.json: every list of up to MaxDeps dependency objects as
\* they may be written in the file ("" and <<>>: the field is absent).
RawDependencies ==
    [source : {"", "git", "local", "profile", "svn"}, uri : {"", GitURI}, path : {"", "pa"},
     profile : {<<>>, <<LegacyID>>}, ref : {"", "main"}, version : {"", "^1.0.0"}]

\* validateDependencies: the first error in list order, "" when there is none.
validateDependency(dep) ==
    LET source == IF dep.source = "" THEN "git" ELSE dep.source IN
    IF source = "git" THEN
        IF dep.uri = "" THEN "git source requires uri"
        ELSE IF dep.path # "" \/ dep.profile # <<>> THEN "git source does not support path/profile"
        ELSE IF dep.ref # "" /\ dep.version # "" THEN "use only one of version or ref"
        ELSE ""
    ELSE IF source = "local" THEN
        IF dep.path = "" THEN "local source requires path"
        ELSE IF dep.uri # "" \/ dep.profile # <<>> THEN "local source does not support uri/profile"
        ELSE IF dep.ref # "" \/ dep.version # "" THEN "local source does not support version or ref"
        ELSE ""
    ELSE IF source = "profile" THEN
        IF dep.profile = <<>> THEN "profile source requires profile id"
        ELSE IF dep.uri # "" \/ dep.path # "" THEN "profile source does not support uri/path"
        ELSE IF dep.ref # "" \/ dep.version # "" THEN "profile source does not support version or ref"
        ELSE ""
    ELSE "unsupported source"

RECURSIVE validateDependencies(_)
validateDependencies(ds) ==
    IF ds = <<>> THEN ""
    ELSE IF validateDependency(Head(ds)) # "" THEN validateDependency(Head(ds))
    ELSE validateDependencies(Tail(ds))

InitManifest ==
    /\ cfg = [overrides |-> <<>>, targets |-> DefaultTargets]
    /\ deps \in UNION {[1..n -> RawDependencies] : n \in 0..MaxDeps}
    /\ lock = [exists |-> FALSE, resolved |-> <<>>]
    /\ localPacks = [p \in LocalPaths |-> [exists |-> TRUE, content |-> [f \in PackPaths(p) |-> 1]]]
    /\ gitHead = 1
    /\ store = EmptyMap
    /\ files = EmptyMap
    /\ clock = 0
    /\ composed = <<>>
    /\ last = Outcome("init", "")

\* LoadRuleset, as every command that reads the manifest starts.
LoadRuleset ==
    /\ last' = Outcome("load", validateDependencies(deps))
    /\ UNCHANGED <<cfg, deps, lock, localPacks, gitHead, store, files, clock, composed>>

NextManifest ==
    \/ LoadRuleset

SpecManifest == InitManifest /\ [][NextManifest]_vars

\* Module lists: the functions of the pipeline that take a list of modules
\* (hashing, rendering, snapshot), applied to every list of up to MaxList
\* modules, in every order.  Here composed holds the list.
ListIds == {"a", "a b", "a.b", "a_b"}

ListApply ==
    { NoApply,
      [default |-> <<"never">>, cursor |-> <<>>],
      [default |-> <<"never">>, cursor |-> <<"">>],
      [default |-> <<"agent">>, cursor |-> <<"never">>] }

ListModules ==
    { [packName |-> <<"pack", "pa">>, packVersion |-> "1.0.0", commit |-> <<"local">>,
       id |-> id, priority |-> pr, content |-> c, apply |-> ap] :
      id \in ListIds, pr \in 1..2, c \in Contents, ap \in ListApply }

ModuleLists == UNION {[1..n -> ListModules] : n \in 0..MaxList}

\* The pack whose rulepack.json lists the modules in the order of the list,
\* each in a file of its own.
ManifestEntry(m) ==
    [id |-> m.id, path |-> <<m.id, m.content>>, priority |-> m.priority, apply |-> m.apply]

ListManifest(mods) ==
    [name |-> <<"pack", "pa">>, version |-> "1.0.0", modules |-> SeqMap(ManifestEntry, mods),
     exports |-> EmptyMap, folders |-> EmptyMap]

ListFiles(mods) == [p \in {ManifestEntry(mods[i]).path : i \in 1..Len(mods)} |-> p[2]]

ExpansionOf(mods) ==
    expandDependencyWithHash(ListManifest(mods), ListFiles(mods), "", <<"local">>)

InitModules ==
    /\ cfg = [overrides |-> <<>>, targets |-> DefaultTargets]
    /\ deps = <<>>
    /\ lock = [exists |-> FALSE, resolved |-> <<>>]
    /\ localPacks = [p \in LocalPaths |-> [exists |-> TRUE, content |-> [f \in PackPaths(p) |-> 1]]]
    /\ gitHead = 1
    /\ store = EmptyMap
    /\ files = EmptyMap
    /\ clock = 0
    /\ composed \in ModuleLists
    /\ last = Outcome("init", "")

\* The same modules listed in another order.
Reorder ==
    /\ \E i \in 1..(Len(composed) - 1) :
          composed' = [composed EXCEPT ![i] = composed[i + 1], ![i + 1] = composed[i]]
    /\ composed' # composed
    /\ store' = EmptyMap
    /\ files' = EmptyMap
    /\ last' = Outcome("reorder", "")
    /\ UNCHANGED <<cfg, deps, lock, localPacks, gitHead, clock>>

\* build --target cursor --yes on a list that passes the duplicate check and
\* is in composed order, into an empty output directory.
RenderModules ==
    /\ composeChecked(composed).err = ""
    /\ composeChecked(composed).mods = composed
    /\ \E r \in {buildTargets(cfg, <<"cursor">>, composed, EmptyMap, TRUE, 0)} :
          /\ files' = r.files
          /\ last' = Outcome("build", r.err)
    /\ store' = EmptyMap
    /\ UNCHANGED <<cfg, deps, lock, localPacks, gitHead, clock, composed>>

\* SaveSnapshot of a list that passes the duplicate check and is in
\* composed order, into an empty store.
SaveModules ==
    /\ composed # <<>>
    /\ composeChecked(composed).err = ""
    /\ composeChecked(composed).mods = composed
    /\ \E r \in {SaveSnapshot(EmptyMap, <<>>, "p",
                              <<Source("local", <<"pa">>, "", moduleIDs(composed))>>,
                              ComputeContentHash(composed, "default"), composed, clock)} :
          /\ store' = r.store
          /\ last' = Outcome("profile.save", r.err)
    /\ files' = EmptyMap
    /\ UNCHANGED <<cfg, deps, lock, localPacks, gitHead, clock, composed>>

NextModules ==
    \/ Reorder
    \/ RenderModules
    \/ SaveModules

SpecModules == InitModules /\ [][NextModules]_vars

\* Request edits: the request stated for the git pack is replaced by deps
\* add between installs and builds, while the repository moves on.
NextPin ==
    \/ \E dep \in PinChoices : DepsAdd(dep, TRUE)
    \/ DepsAdd(LocalDep("pa", ""), TRUE)
    \/ \E idx \in 1..MaxDeps : DepsRemove(idx)
    \/ Install(0)
    \/ Build("cursor", TRUE, 0, 0)
    \/ GitPush

SpecPin == Init /\ [][NextPin]_vars

\* Switching to profiles: dependencies are added and installed, a local
\* pack may disappear, and profile save --switch replaces dependencies by
\* the profile it saved.
NextSwitch ==
    \/ \E dep \in {LocalDep("pa", ""), LocalDep("pb", ""), GitDep("")} : DepsAdd(dep, TRUE)
    \/ \E netFail \in 0..MaxDeps : Install(netFail)
    \/ \E depSel \in 0..MaxDeps, netFail \in 0..MaxDeps : ProfileSaveSwitch(depSel, "p", netFail)
    \/ DeleteLocal("pb")
    \/ \E ref \in ProfileRefs(store) : ProfileRemove(ref, TRUE)

SpecSwitch == Init /\ [][NextSwitch]_vars

-----------------------------------------------------------------------------
(* Composition and rendering (SpecRender) *)

\* The module sequence is strictly sorted by (priority, id).
StrictlySorted(modules) ==
    \A i \in 1..(Len(modules) - 1) :
        \/ modules[i].priority < modules[i + 1].priority
        \/ /\ modules[i].priority = modules[i + 1].priority
           /\ IdRank(modules[i].id) < IdRank(modules[i + 1].id)

UniqueIDs(modules) ==
    \A i, j \in 1..Len(modules) : i # j => modules[i].id # modules[j].id

BuildSucceeded == last.cmd = "build" /\ last.err = ""
BuildFailed == last.cmd = "build" /\ last.err # ""

\* C1: whenever build succeeds, the module sequence handed to the renderers
\* is strictly sorted by (priority ascending, id ascending) and no two of its
\* modules share an id, with overrides and several dependencies included.
C1_ComposedSortedUnique ==
    BuildSucceeded => StrictlySorted(composed) /\ UniqueIDs(composed)

\* A successful build of two packs listed in descending order, where the
\* override moved module c from priority 1 behind a and b.
C1_Witness ==
    /\ BuildSucceeded
    /\ Len(deps) = 2 /\ deps[1].path = "pb" /\ deps[2].path = "pa"
    /\ Len(composed) = 3
    /\ composed[3].id = "c" /\ composed[3].priority = 3

\* C6: a build that fails leaves every target output file as it was before
\* the build.
C6_FailedBuildWritesNothing ==
    [][(last'.cmd = "build" /\ last'.err # "") => files' = files]_vars

-----------------------------------------------------------------------------
(* Manifest and lockfile (Spec) *)

KindDiffers(i) == dependencySource(deps[i]) # lockSource(lock.resolved[i])

\* The source key of dependency i differs from the key of lock entry i of the
\* same kind: uri for git, path for local, profile id for profile.
KeyDiffers(i) ==
    /\ ~ KindDiffers(i)
    /\ IF dependencySource(deps[i]) = "git" THEN deps[i].uri # lock.resolved[i].uri
       ELSE IF dependencySource(deps[i]) = "local" THEN deps[i].path # lock.resolved[i].path
       ELSE deps[i].profile # lock.resolved[i].profile

LockMismatch ==
    /\ lock.exists
    /\ \/ Len(deps) # Len(lock.resolved)
       \/ \E i \in 1..Len(deps) : KindDiffers(i) \/ KeyDiffers(i)

\* C2: build fails with the lockfile-mismatch error whenever the manifest and
\* the lockfile differ in length, or at some index in source kind or in
\* source key.
C2_MismatchIsLockfileMismatch ==
    (last.cmd = "build" /\ LockMismatch) => last.err = "lockfile mismatch"

\* C4: after a successful install the lockfile has one entry per dependency,
\* in manifest order, and entry i has the source kind and key of dependency i.
C4_LockFollowsManifest ==
    (last.cmd = "install" /\ last.err = "") =>
        /\ lock.exists
        /\ Len(lock.resolved) = Len(deps)
        /\ \A i \in 1..Len(deps) : ~ KindDiffers(i) /\ ~ KeyDiffers(i)

\* A successful install of a git and a local dependency.
C4_Witness ==
    /\ last.cmd = "install" /\ last.err = ""
    /\ Len(deps) = 2
    /\ dependencySource(deps[1]) = "local" /\ dependencySource(deps[2]) = "git"

\* C5: an install that fails leaves the lockfile as it was.
C5_FailedInstallKeepsLock ==
    [][(last'.cmd = "install" /\ last'.err # "") => lock' = lock]_vars

\* A failed install over a lockfile that has entries and no longer matches
\* the manifest.
C5_Witness ==
    /\ last.cmd = "install" /\ last.err # ""
    /\ lock.resolved # <<>>
    /\ LockMismatch

-----------------------------------------------------------------------------
(* Drift of local and profile dependencies (SpecProfileDep) *)

\* The expansion build recomputes for dependency i.
Recomputed(i) ==
    IF dependencySource(deps[i]) = "local"
    THEN ExpandLocalDependency(localPacks, deps[i].path, deps[i].export)
    ELSE ExpandProfileDependency(deps[i].profile[1], store[deps[i].profile[1]],
                                 profileDependencyForRead(deps[i]).export)

Expandable(i) ==
    /\ IF dependencySource(deps[i]) = "local"
       THEN resolveLocalPathOK(localPacks, deps[i].path)
       ELSE /\ deps[i].profile[1] \in DOMAIN store
            /\ readProfileOK(store[deps[i].profile[1]])
    /\ Recomputed(i).err = ""

HashDiffers(i) == Recomputed(i).hash # lock.resolved[i].contentHash

\* Build reaches the hash comparison of dependency i, and the recomputed
\* hash differs from the locked one.
DriftReached(i) ==
    /\ lock.exists
    /\ Len(deps) = Len(lock.resolved)
    /\ \A j \in 1..i :
          /\ dependencySource(deps[j]) \in {"local", ProfileSource}
          /\ ~ KindDiffers(j) /\ ~ KeyDiffers(j)
          /\ Expandable(j)
          /\ HashDiffers(j) <=> (j = i)

DriftError(i) ==
    IF dependencySource(deps[i]) = "local" THEN "local dependency changed"
    ELSE "profile snapshot drift"

\* C3: when the hash build recomputes for a local or profile dependency
\* differs from the locked hash, build fails with the drift error of that
\* kind, and changes neither manifest, lockfile nor sources, so that it keeps
\* failing until install is run again.
C3_DriftFailsBuild ==
    [][\A i \in 1..Len(deps) :
          (last'.cmd = "build" /\ DriftReached(i)) =>
              /\ last'.err = DriftError(i)
              /\ UNCHANGED <<deps, lock, localPacks, store>>]_vars

\* A build rejected because the profile was refreshed in place after install.
C3_Witness ==
    /\ last.cmd = "build" /\ last.err = "profile snapshot drift"
    /\ \E i \in 1..Len(deps) : DriftReached(i) /\ dependencySource(deps[i]) = ProfileSource

-----------------------------------------------------------------------------
(* Profile store (SpecStore) *)

\* C7: a save that fails the alias check leaves the profile store unchanged.
C7_RejectedSaveKeepsStore ==
    [][(last'.cmd = "profile.save" /\ last'.err = "alias already exists")
          => store' = store]_vars

AliasesUnique ==
    \A d, e \in DOMAIN store :
        (/\ d # e
         /\ readProfileOK(store[d]) /\ readProfileOK(store[e])
         /\ store[d].meta[1].alias # "")
        => store[d].meta[1].alias # store[e].meta[1].alias

\* What profile save --dep 1 is going to write in the current state.
CanSave ==
    /\ lock.exists
    /\ Len(deps) = Len(lock.resolved)
    /\ Len(deps) >= 1
    /\ expandDependencyForSnapshot(deps[1], lock.resolved[1], localPacks, store, TRUE).err = ""

CurrentHash ==
    expandDependencyForSnapshot(deps[1], lock.resolved[1], localPacks, store, TRUE).hash

CurrentSources ==
    <<Source(dependencySource(deps[1]),
             expandDependencyForSnapshot(deps[1], lock.resolved[1], localPacks, store, TRUE).ref,
             deps[1].export,
             moduleIDs(expandDependencyForSnapshot(deps[1], lock.resolved[1], localPacks,
                                                   store, TRUE).mods))>>

CurrentID == buildID(CurrentSources, CurrentHash)

AliasHeldByOther(alias, id) ==
    \E d \in DOMAIN store :
        /\ readProfileOK(store[d])
        /\ store[d].meta[1].alias = alias
        /\ store[d].meta[1].id # id

C9_IdDerivedFromMetadata ==
    \A d \in DOMAIN store :
        readProfileOK(store[d]) =>
            /\ store[d].meta[1].id = d
            /\ d = buildID(store[d].meta[1].sources, store[d].meta[1].contentHash)

\* The part of an id that encodes the sources (its first 12 characters).
IDSourcePart(id) == id.src

\* C9, amended: the directory name is the id of the metadata and encodes the
\* recorded sources; the id is derived from sources and content hash when the
\* profile is first written, and an in-place refresh keeps it.
C9_IdFixedAtCreation ==
    /\ [](\A d \in DOMAIN store :
             readProfileOK(store[d]) =>
                 /\ store[d].meta[1].id = d
                 /\ IDSourcePart(d) =
                        IDSourcePart(buildID(store[d].meta[1].sources,
                                             store[d].meta[1].contentHash)))
    /\ [][\A d \in DOMAIN store' :
             (/\ readProfileOK(store'[d])
              /\ d \notin DOMAIN store \/ ~ readProfileOK(store[d]))
             => d = buildID(store'[d].meta[1].sources, store'[d].meta[1].contentHash)]_vars

\* A profile refreshed in place: its content hash changed, its id did not.
C9_Witness ==
    /\ last.cmd = "profile.refresh" /\ last.err = ""
    /\ \E d \in DOMAIN store :
          /\ readProfileOK(store[d])
          /\ store[d].meta[1].id = d
          /\ d # buildID(store[d].meta[1].sources, store[d].meta[1].contentHash)

\* C10: a save whose sources, content hash and alias are those of a profile
\* saved before yields the same id, reuses the directory and keeps createdAt.
C10_RepeatedSaveKeepsCreatedAt ==
    [][(/\ CanSave
        /\ last'.cmd = "profile.save" /\ last'.err = ""
        /\ CurrentID \in DOMAIN store
        /\ readProfileOK(store[CurrentID])
        /\ store[CurrentID].meta[1].sources = CurrentSources
        /\ store[CurrentID].meta[1].contentHash = CurrentHash
        /\ store'[CurrentID].meta[1].alias = store[CurrentID].meta[1].alias)
       => /\ DOMAIN store' = DOMAIN store
          /\ store'[CurrentID].meta[1].id = CurrentID
          /\ store'[CurrentID].meta[1].createdAt = store[CurrentID].meta[1].createdAt]_vars

\* A second save of the same profile after time has passed.
C10_Witness ==
    /\ last.cmd = "profile.save" /\ last.err = ""
    /\ CanSave
    /\ CurrentID \in DOMAIN store
    /\ readProfileOK(store[CurrentID])
    /\ store[CurrentID].meta[1].contentHash = CurrentHash
    /\ store[CurrentID].meta[1].createdAt < clock

-----------------------------------------------------------------------------
(* Repeated commands *)

\* C11: an install that follows a successful install, with nothing changed
\* in between, writes the lockfile the first one wrote.
C11_InstallTwiceSameLock ==
    [][(/\ last.cmd = "install" /\ last.err = ""
        /\ last'.cmd = "install" /\ last'.err = "")
       => lock' = lock]_vars

\* A successful install of a local and a git dependency, in a state where a
\* second install succeeds as well.
C11_Witness ==
    /\ last.cmd = "install" /\ last.err = ""
    /\ Len(deps) = 2
    /\ dependencySource(deps[1]) = "git" /\ dependencySource(deps[2]) = "local"
    /\ buildLock(deps, localPacks, gitHead, store, 0) = [err |-> "", resolved |-> lock.resolved]

\* The build command run again, with the same flags, on the state a step
\* leads to.
Rebuild(target, yes) ==
    buildCmd(cfg', deps', lock', localPacks', store', files', target, yes, 0, 0)

\* C12: a build repeated with the same flags right after a successful build
\* succeeds as well and leaves the output files as the first build left them.
C12_BuildTwiceSameFiles ==
    [][\A target \in TargetFlags, yes \in BOOLEAN :
          (Build(target, yes, 0, 0) /\ last'.err = "")
          => /\ Rebuild(target, yes).err = ""
             /\ Rebuild(target, yes).files = files']_vars

-----------------------------------------------------------------------------
(* Cursor collisions (SpecRender) *)

\* The cursor paths build --target <target> is going to write in the
\* current state.
IntendedCursorPaths(target) ==
    IF /\ "cursor" \in SeqToSet(resolveTargets(target))
       /\ "cursor" \in DOMAIN cfg.targets
       /\ composeModules(cfg, deps, lock, localPacks, store, 0).err = ""
    THEN SeqToSet(cursorWritePaths(cfg.targets["cursor"],
                                   composeModules(cfg, deps, lock, localPacks, store, 0).mods).paths)
    ELSE {}

\* The path holds a file without the provenance marker.
UnmanagedAt(path) == path \in DOMAIN files /\ ~ files[path].marker

\* C13: in every reachable state, a build without --yes that is going to
\* write a cursor path holding an unmanaged file fails and changes no file;
\* with --yes a successful build replaces a user's file on such a path.
C13_UnmanagedNeedsConfirmation ==
    \A target \in TargetFlags :
        /\ \A ioFail \in 0..MaxIoStep :
              \A r \in {buildCmd(cfg, deps, lock, localPacks, store, files, target, FALSE,
                                 0, ioFail)} :
                  (\E path \in IntendedCursorPaths(target) : UnmanagedAt(path))
                  => r.err # "" /\ r.files = files
        /\ \A r \in {buildCmd(cfg, deps, lock, localPacks, store, files, target, TRUE, 0, 0)} :
              \A path \in IntendedCursorPaths(target) :
                  (r.err = "" /\ UnmanagedAt(path) /\ files[path].body = <<"user">>)
                  => r.files[path] # files[path]

\* A build refused at the risk gate while a user's file sits on a cursor
\* path it is going to write.
C13_Witness ==
    /\ last.cmd = "build" /\ last.err = "rerun with --yes"
    /\ \E path \in IntendedCursorPaths("cursor") :
          UnmanagedAt(path) /\ files[path].body = <<"user">>

\* The modules build composes in the current state.
ComposedNow == composeModules(cfg, deps, lock, localPacks, store, 0)

\* C14: the collision preflight reports an intended cursor path exactly when
\* a file exists at the path and that file lacks the provenance marker.
C14_ReportsExactlyUnmanaged ==
    ("cursor" \in DOMAIN cfg.targets /\ ComposedNow.err = "") =>
        \A wp \in {cursorWritePaths(cfg.targets["cursor"], ComposedNow.mods)},
           r \in {CursorUnmanagedOverwrites(cfg.targets["cursor"], ComposedNow.mods, files)} :
            wp.err = "" =>
                /\ r.err = ""
                /\ SeqToSet(r.paths) =
                       {path \in SeqToSet(wp.paths) : path \in DOMAIN files /\ ~ files[path].marker}

\* Two intended per-module paths: a user's file on one, reported, and no
\* file on the other.
C14_Witness ==
    /\ "cursor" \in DOMAIN cfg.targets
    /\ ComposedNow.err = ""
    /\ CursorUnmanagedOverwrites(cfg.targets["cursor"], ComposedNow.mods, files).paths
           = <<(<<"cursor", 1, "a">>)>>
    /\ files[<<"cursor", 1, "a">>].body = <<"user">>
    /\ Len(cursorWritePaths(cfg.targets["cursor"], ComposedNow.mods).paths) = 2

\* A file rulepack wrote sits on an intended path and is not reported.
C14_ManagedNotReported ==
    /\ "cursor" \in DOMAIN cfg.targets
    /\ ComposedNow.err = ""
    /\ \E path \in IntendedCursorPaths("cursor") : path \in DOMAIN files /\ files[path].marker
    /\ CursorUnmanagedOverwrites(cfg.targets["cursor"], ComposedNow.mods, files).paths = <<>>

-----------------------------------------------------------------------------
(* Cursor output *)

\* A file the cursor renderer wrote (per-module or merged), as opposed to a
\* user's file.
CursorRendered(path) ==
    /\ path \in DOMAIN files
    /\ path[1] = "cursor"
    /\ files[path].body[1] \in {"mdc", "merged"}

\* C15: every file the cursor renderer wrote holds the provenance marker the
\* collision preflight recognises.
C15_RenderedHasMarker ==
    \A path \in DOMAIN files : CursorRendered(path) => files[path].marker

\* The module id of a provenance header.
HeaderID(header) == header[4]

\* The cursor file at path carries module id: it is the module's own file,
\* or a merged file with a section of the module.
Carries(path, id) ==
    /\ CursorRendered(path)
    /\ IF files[path].body[1] = "mdc" THEN HeaderID(files[path].body[3]) = id
       ELSE \E k \in 1..Len(files[path].body[2]) : HeaderID(files[path].body[2][k][1]) = id

\* C16: after a successful build, no cursor file carries a module of the
\* composition whose cursor apply mode is never.
C16_NeverNotInCursorOutput ==
    BuildSucceeded =>
        \A k \in 1..Len(composed) :
            ~ CursorVisible(composed[k]) =>
                \A path \in DOMAIN files : ~ Carries(path, composed[k].id)

-----------------------------------------------------------------------------
(* Profile refresh (SpecRefresh) *)

\* What refresh of profile ref would store: the snapshot as it is read
\* back, and the merge of it with the freshly resolved modules.
StoredModules(ref) ==
    LET r == ResolveIDOrAlias(store, ref)
    IN IF r.err # "" THEN [err |-> r.err, mods |-> <<>>]
       ELSE LET ex == ExpandProfileDependency(r.meta[1].id, store[r.meta[1].id], "default")
            IN [err |-> ex.err, mods |-> ex.mods]

FreshModules(ref) ==
    resolveFreshModulesForProfile(ResolveIDOrAlias(store, ref).meta[1].sources,
                                  StoredModules(ref).mods, localPacks, gitHead, store, TRUE)

MergedModules(ref, sel) ==
    IF StoredModules(ref).err # "" THEN [err |-> StoredModules(ref).err, mods |-> <<>>]
    ELSE LET m == mergeRefreshedModules(StoredModules(ref).mods, FreshModules(ref),
                                        sel.noRules, sel.rules)
         IN [err |-> m.err, mods |-> m.mods]

Digests(mods) == {moduleDigest(mods[k]) : k \in 1..Len(mods)}

MergedDiffers(ref, sel) ==
    /\ MergedModules(ref, sel).err = ""
    /\ Digests(MergedModules(ref, sel).mods) # Digests(StoredModules(ref).mods)

C18_NewIdWritesNewProfile ==
    [][\A ref \in RefreshRefs(store), sel \in RuleChoices, yes \in BOOLEAN :
          (/\ MergedDiffers(ref, sel)
           /\ ProfileRefresh(ref, sel.noRules, sel.rules, TRUE, FALSE, yes, TRUE))
          => /\ last'.err = ""
             /\ DOMAIN store' \ DOMAIN store # {}
             /\ \A id \in DOMAIN store : store'[id] = store[id]]_vars

\* What the code does instead, in every reachable state: such a refresh
\* either is rejected with "alias already exists", the alias it copies from
\* the original profile being held by the original profile, or computes the
\* id of the original profile and overwrites it; it never leaves a readable
\* profile under a new id.
C18_NeverCreatesProfile ==
    \A ref \in RefreshRefs(store), sel \in RuleChoices, yes \in BOOLEAN :
        \A r \in {refreshCmd(store, localPacks, gitHead, ref, sel.noRules, sel.rules,
                             TRUE, FALSE, yes, TRUE, clock)} :
            MergedDiffers(ref, sel) =>
                /\ \A id \in DOMAIN r.store \ DOMAIN store : r.store[id].meta = <<>>
                /\ \/ r.err = "alias already exists"
                   \/ r.err = "" /\ DOMAIN r.store = DOMAIN store /\ r.store # store

\* C19: in every reachable state, a refresh with --dry-run, whatever the
\* profile reference, the --rule selection, --new-id and --yes, leaves the
\* profile store (metadata with its contentHash, and module files) as it is.
C19_DryRunWritesNothing ==
    \A ref \in RefreshRefs(store), sel \in RuleChoices, newID \in BOOLEAN, yes \in BOOLEAN :
        \A r \in {refreshCmd(store, localPacks, gitHead, ref, sel.noRules, sel.rules,
                             newID, TRUE, yes, TRUE, clock)} :
            r.store = store

\* A refresh has just succeeded although both modules of the profile are
\* still behind the pack: it was a dry run.
C19_Witness ==
    /\ last = Outcome("profile.refresh", "")
    /\ store = StoredProfile({"a", "b"})
    /\ \A f \in PackPaths("pa") : localPacks["pa"].content[f] = 2
    /\ MergedDiffers(ByAlias("p"), [noRules |-> FALSE, rules |-> {"a"}])
    /\ MergedDiffers(ByAlias("p"), [noRules |-> FALSE, rules |-> {"b"}])

SelectiveChoices == {sel \in RuleChoices : ~ sel.noRules}

SelectiveMerge(ref, sel) ==
    mergeRefreshedModules(StoredModules(ref).mods, FreshModules(ref), FALSE, sel.rules)

Replaced(ref, sel) == moduleIDs(StoredModules(ref).mods) \cap sel.rules

Added(ref, sel) == (moduleIDs(FreshModules(ref)) \cap sel.rules) \ moduleIDs(StoredModules(ref).mods)

\* C20: in every reachable state, a selective refresh that yields a module
\* list keeps every stored module outside the selection as it is stored,
\* holds the fresh version of every stored module inside the selection and
\* of every selected fresh module that was not stored, holds nothing else,
\* and reports exactly the replaced and added ids, each once, ascending.
C20_SelectiveRefresh ==
    \A ref \in RefreshRefs(store), sel \in SelectiveChoices :
        StoredModules(ref).err = "" =>
            \A m \in {SelectiveMerge(ref, sel)},
               cur \in {StoredModules(ref).mods}, fresh \in {FreshModules(ref)} :
                m.err = "" =>
                    /\ \A k \in 1..Len(cur) : cur[k].id \notin sel.rules =>
                           \E n \in 1..Len(m.mods) : m.mods[n] = cur[k]
                    /\ \A id \in Replaced(ref, sel) \cup Added(ref, sel) :
                           \E n \in 1..Len(m.mods) : m.mods[n] = LastByID(fresh, id)
                    /\ moduleIDs(m.mods) = moduleIDs(cur) \cup Added(ref, sel)
                    /\ Len(m.mods) = Cardinality(moduleIDs(m.mods))
                    /\ SeqToSet(m.refreshed) = Replaced(ref, sel) \cup Added(ref, sel)
                    /\ \A i, j \in 1..Len(m.refreshed) :
                           i < j => IdRank(m.refreshed[i]) < IdRank(m.refreshed[j])

\* A refresh has succeeded on a profile that was taken with module a only:
\* it now holds b in the version of the pack, and a as it was stored, behind
\* the pack.
C20_Witness ==
    /\ last = Outcome("profile.refresh", "")
    /\ Cardinality(DOMAIN store) = 1
    /\ StoredModules(ByAlias("p")).err = ""
    /\ ResolveIDOrAlias(store, ByAlias("p")).meta[1].sources[1].moduleIds = {"a"}
    /\ \A cur \in {StoredModules(ByAlias("p")).mods} :
          /\ moduleIDs(cur) = {"a", "b"}
          /\ LastByID(cur, "a").content = 1 /\ localPacks["pa"].content["a.md"] = 2
          /\ LastByID(cur, "b").content = 2 /\ localPacks["pa"].content["b.md"] = 2

-----------------------------------------------------------------------------
(* Hashes (SpecModules) *)

\* No two modules of the list share priority and id.
DistinctKeys(mods) ==
    \A i, j \in 1..Len(mods) :
        i # j => mods[i].priority # mods[j].priority \/ mods[i].id # mods[j].id

\* C21 as stated: listing the same module entries in another order in the
\* pack manifest never changes the expansion hash.
C21_HashIgnoresManifestOrder ==
    [][ExpansionOf(composed').hash = ExpansionOf(composed).hash]_vars

\* C21, amended: listing the same module entries in another order never
\* changes the expansion hash when no two entries share priority and id.
C21_HashIgnoresOrderOfDistinct ==
    [][DistinctKeys(composed) =>
          /\ ExpansionOf(composed').err = "" /\ ExpansionOf(composed).err = ""
          /\ ExpansionOf(composed').hash = ExpansionOf(composed).hash]_vars

C21_Witness ==
    /\ last = Outcome("reorder", "")
    /\ Len(composed) = 2 /\ DistinctKeys(composed)
    /\ composed # SortModules(composed)
    /\ ExpansionOf(composed).err = ""

\* C22 as stated: reordering a module list never changes its profile
\* contentHash.
C22_ContentHashIgnoresOrder ==
    [][ComputeContentHash(composed', "default") = ComputeContentHash(composed, "default")]_vars

\* C22, amended: reordering a module list in which no two modules share
\* priority and id never changes its profile contentHash.
C22_ContentHashIgnoresOrderOfDistinct ==
    [][DistinctKeys(composed) =>
          ComputeContentHash(composed', "default") = ComputeContentHash(composed, "default")]_vars

\* A list of two modules of one priority has just been put in descending
\* order of id.
C22_Witness ==
    /\ last = Outcome("reorder", "")
    /\ Len(composed) = 2
    /\ composed[1].priority = composed[2].priority
    /\ IdRank(composed[2].id) < IdRank(composed[1].id)
    /\ composed[1].content # composed[2].content

-----------------------------------------------------------------------------
(* Profiles in the old format (SpecLegacy) *)

Legacy(d) == store[d].meta # <<>> /\ store[d].meta[1].sources = <<>>

AliasOf(d) == store[d].meta[1].alias

-----------------------------------------------------------------------------
(* Manifest validation (SpecManifest) *)

\* C24: whenever a manifest in which some dependency has no source field
\* has been loaded, the load failed with "source is required".
C24_MissingSourceRejected ==
    (last.cmd = "load" /\ \E i \in 1..Len(deps) : deps[i].source = "")
        => last.err = "source is required"

-----------------------------------------------------------------------------
(* Apply modes (SpecModules) *)

\* The mode C25 states: the mode of apply.targets.cursor when that entry
\* specifies one, else the mode of apply.default when it specifies one, else
\* always.
StatedMode(m) ==
    IF m.apply.cursor # <<>> /\ m.apply.cursor[1] # "" THEN m.apply.cursor[1]
    ELSE IF m.apply.default # <<>> /\ m.apply.default[1] # "" THEN m.apply.default[1]
    ELSE "always"

\* C25: whenever a build has succeeded, the cursor apply mode resolved for
\* every module of the list is the stated one.
C25_ApplyModePriority ==
    BuildSucceeded =>
        \A i \in 1..Len(composed) : resolveCursorApplyRule(composed[i]).mode = StatedMode(composed[i])

\* What the code keeps of C25: the stated mode is the resolved one for
\* every module whose apply.targets.cursor entry is absent or names a mode.
C25_PriorityWhenEntryHasMode ==
    BuildSucceeded =>
        \A i \in 1..Len(composed) :
            composed[i].apply.cursor # <<"">> =>
                resolveCursorApplyRule(composed[i]).mode = StatedMode(composed[i])

-----------------------------------------------------------------------------
(* Per-module output paths (SpecModules) *)

\* C28: whenever a per-module cursor build has succeeded, no two modules of
\* the composed sequence that are rendered share an output path, and the
\* output holds the rendered content of each of them.
C28_OneFilePerModule ==
    (BuildSucceeded /\ cfg.targets["cursor"].perModule) =>
        /\ \A i, j \in 1..Len(composed) :
              (i # j /\ CursorVisible(composed[i]) /\ CursorVisible(composed[j]))
                  => CursorModulePath(composed[i]) # CursorModulePath(composed[j])
        /\ \A i \in 1..Len(composed) :
              CursorVisible(composed[i]) =>
                  /\ CursorModulePath(composed[i]) \in DOMAIN files
                  /\ files[CursorModulePath(composed[i])] = cursorPerModuleContent(composed[i])

-----------------------------------------------------------------------------
(* Snapshot round trip (SpecModules) *)

\* What a snapshot keeps of a module.
Saved(m) == [id |-> m.id, priority |-> m.priority, apply |-> m.apply, content |-> m.content]

\* C29: whenever a module list with unique ids has been saved, expanding
\* the default export of the profile directory returns the saved modules,
\* with their ids, priorities, apply metadata and content, in (priority,
\* id) order.
C29_SnapshotRoundTrip ==
    (last = Outcome("profile.save", "") /\ UniqueIDs(composed)) =>
        \A d \in DOMAIN store :
            \A ex \in {ExpandProfileDependency(d, store[d], "default")} :
                /\ ex.err = ""
                /\ SeqMap(Saved, ex.mods) = SeqMap(Saved, SortModules(composed))

\* What the code keeps of C29: the round trip returns the saved modules
\* whenever no two of them share priority and sanitized id.
C29_RoundTripOfDistinctFiles ==
    (/\ last = Outcome("profile.save", "") /\ UniqueIDs(composed)
     /\ \A i, j \in 1..Len(composed) :
           i # j => SnapshotFileName(composed[i]) # SnapshotFileName(composed[j])) =>
        \A d \in DOMAIN store :
            \A ex \in {ExpandProfileDependency(d, store[d], "default")} :
                /\ ex.err = ""
                /\ SeqMap(Saved, ex.mods) = SeqMap(Saved, SortModules(composed))

-----------------------------------------------------------------------------
(* Stale output (Spec) *)

\* The provenance headers a rendered cursor file holds.
HeadersIn(path) ==
    IF files[path].body[1] = "mdc" THEN {files[path].body[3]}
    ELSE {files[path].body[2][k][1] : k \in 1..Len(files[path].body[2])}

\* C27: whenever build has succeeded, every header in every rendered file
\* of the cursor output is the header of a module of the composed sequence
\* that is rendered for cursor, and a per-module file lies at the path of
\* that module.
C27_NoStaleCursorFiles ==
    BuildSucceeded =>
        \A path \in DOMAIN files : CursorRendered(path) =>
            \A header \in HeadersIn(path) :
                \E k \in 1..Len(composed) :
                    /\ CursorVisible(composed[k])
                    /\ provenanceHeader(composed[k]) = header
                    /\ files[path].body[1] = "mdc" => path = CursorModulePath(composed[k])


-----------------------------------------------------------------------------
(* Stale pin (SpecPin) *)

\* The request the manifest states for a git dependency.
RequestOf(dep) == IF dep.ref # "" THEN dep.ref ELSE "HEAD"

\* Lockfile entry i was resolved for the request the manifest states at i.
ResolvedForRequest(i) ==
    /\ lock.resolved[i].export = deps[i].export
    /\ dependencySource(deps[i]) = "git" => lock.resolved[i].requested = RequestOf(deps[i])

\* C26: whenever build has succeeded, every lockfile entry carries the
\* export the manifest states at its index and, for a git dependency, the
\* ref request the manifest states there.
C26_BuildNeverFromStalePin ==
    BuildSucceeded => \A i \in 1..Len(deps) : ResolvedForRequest(i)

-----------------------------------------------------------------------------
(* Switch alignment (SpecSwitch) *)

\* Manifest and lockfile agree in length and, index by index, in source
\* kind and key.
Aligned(ds, lk) ==
    /\ Len(ds) = Len(lk.resolved)
    /\ \A i \in 1..Len(ds) :
          /\ dependencySource(ds[i]) = lockSource(lk.resolved[i])
          /\ dependencyReference(ds[i]) =
                 (IF lockSource(lk.resolved[i]) = "git" THEN <<lk.resolved[i].uri>>
                  ELSE IF lockSource(lk.resolved[i]) = "local" THEN <<lk.resolved[i].path>>
                  ELSE lk.resolved[i].profile)

\* C30: a profile save --switch that rewrote the manifest leaves manifest
\* and lockfile aligned, whether it returned an error or not.
C30_SwitchKeepsAlignment ==
    [][(last'.cmd = "profile.save.switch" /\ deps' # deps) => Aligned(deps', lock')]_vars
====
